---- MODULE Spec2Model ----
(***************************************************************************)
(* A model of the retrieval core of obsidian-agentic-rag:                  *)
(*   - LocalObsidianReader (the vault: files, wikilinks, listing order)    *)
(*   - GraphNavigator      (lazy graph cache, link / backlink / expansion) *)
(*   - VectorRAG / MockVectorRAG (semantic, hybrid search, reranking)      *)
(*   - RAGPipeline         (strategy dispatch, context assembly)           *)
(* Floating point scores are modelled as exact rationals <<n, d>> with a   *)
(* NaN value; rounding is not modelled.                                    *)
(***************************************************************************)
EXTENDS Integers, Sequences, FiniteSets, TLC

VARIABLES
    files,        \* the set of note files of the vault (paths relative to its root)
    wikilinks,    \* file -> the wikilinks extract_wikilinks finds in it, in order
    all_notes,    \* the order in which list_notes (rglob) lists the files
    graph_cache,  \* GraphNavigator._graph_cache
    vector,       \* the vector client (VectorRAG or MockVectorRAG) and its index
    config,       \* RAGPipeline.config
    call,         \* the last operation called, with its arguments
    ret,          \* the list that operation returned (empty if it raised)
    exc,          \* the exception it raised, "" if it returned
    log           \* what it did on the way (argsort outcome, calls made)

vault == <<files, wikilinks, all_notes>>
vars == <<files, wikilinks, all_notes, graph_cache, vector, config,
          call, ret, exc, log>>

----------------------------------------------------------------------------
(* Generic helpers *)

Range(s) == {s[i] : i \in 1..Len(s)}

Min(a, b) == IF a <= b THEN a ELSE b

Abs(n) == IF n < 0 THEN -n ELSE n

\* s[:n] for n >= 0
Take(s, n) == SubSeq(s, 1, Min(n, Len(s)))

SeqsUpTo(S, n) == UNION {[1..k -> S] : k \in 0..n}

Perms(S) == {p \in [1..Cardinality(S) -> S] : Range(p) = S}

\* the Python value None
None == [tag |-> "None"]

----------------------------------------------------------------------------
(* Scores: Python floats as exact rationals <<numerator, denominator>>,     *)
(* denominator > 0, in lowest terms; NaN is <<0, 0>>.                       *)

RECURSIVE GCD(_, _)
GCD(a, b) == IF b = 0 THEN a ELSE GCD(b, a % b)

NaN == <<0, 0>>

IsNaN(x) == x[2] = 0

Rat(n, d) ==
    IF d = 0 THEN NaN
    ELSE LET g == GCD(Abs(n), Abs(d))
             s == IF d < 0 THEN -1 ELSE 1
         IN  <<(s * n) \div g, (s * d) \div g>>

Zero == Rat(0, 1)
One == Rat(1, 1)

RAdd(x, y) == IF IsNaN(x) \/ IsNaN(y) THEN NaN
              ELSE Rat(x[1] * y[2] + y[1] * x[2], x[2] * y[2])

RSub(x, y) == IF IsNaN(x) \/ IsNaN(y) THEN NaN
              ELSE Rat(x[1] * y[2] - y[1] * x[2], x[2] * y[2])

RMul(x, y) == IF IsNaN(x) \/ IsNaN(y) THEN NaN
              ELSE Rat(x[1] * y[1], x[2] * y[2])

\* x / y for y # 0 (the callers decide what a zero divisor does)
RDiv(x, y) == IF IsNaN(x) \/ IsNaN(y) THEN NaN
              ELSE Rat(x[1] * y[2], x[2] * y[1])

\* every comparison with NaN is false
RLt(x, y) == ~IsNaN(x) /\ ~IsNaN(y) /\ x[1] * y[2] < y[1] * x[2]
RGe(x, y) == ~IsNaN(x) /\ ~IsNaN(y) /\ x[1] * y[2] >= y[1] * x[2]

\* max(list) of Python: keeps the first item unless a later one is greater
RECURSIVE RMax(_)
RMax(s) == IF Len(s) = 1 THEN s[1]
           ELSE LET m == RMax(SubSeq(s, 1, Len(s) - 1))
                IN  IF RLt(m, s[Len(s)]) THEN s[Len(s)] ELSE m

Reverse(s) == [i \in 1..Len(s) |-> s[Len(s) + 1 - i]]

\* list.sort of CPython for a list of fewer than 64 items, on the key score:
\* the leading run is found (and reversed if strictly descending), the rest is
\* added by binary insertion.  Only "<" is asked, so a NaN score, for which
\* every "<" is false, ends up where these steps leave it.
ScoreLt(x, y) == RLt(x.score, y.score)

\* count_run: the last index of the run that starts at 1 and includes i
RECURSIVE RunEnd(_, _, _)
RunEnd(a, i, descending) ==
    IF i = Len(a) THEN i
    ELSE IF ScoreLt(a[i + 1], a[i]) = descending THEN RunEnd(a, i + 1, descending)
    ELSE i

\* binarysort: where the pivot goes among sorted[l+1..r] (l, r count from 0)
RECURSIVE BinPos(_, _, _, _)
BinPos(sorted, pivot, l, r) ==
    IF l >= r THEN l
    ELSE LET p == l + (r - l) \div 2
         IN  IF ScoreLt(pivot, sorted[p + 1]) THEN BinPos(sorted, pivot, l, p)
             ELSE BinPos(sorted, pivot, p + 1, r)

RECURSIVE BinarySort(_, _)
BinarySort(sorted, rest) ==
    IF rest = <<>> THEN sorted
    ELSE LET l == BinPos(sorted, Head(rest), 0, Len(sorted))
         IN  BinarySort(SubSeq(sorted, 1, l) \o <<Head(rest)>>
                            \o SubSeq(sorted, l + 1, Len(sorted)),
                        Tail(rest))

SortAsc(a) ==
    IF Len(a) < 2 THEN a
    ELSE LET descending == ScoreLt(a[2], a[1])
             n == RunEnd(a, 2, descending)
             run == IF descending THEN Reverse(SubSeq(a, 1, n)) ELSE SubSeq(a, 1, n)
         IN  BinarySort(run, SubSeq(a, n + 1, Len(a)))

\* a descending sort made of an ascending sort and a reversal: equal scores
\* come out in the opposite of their order
SortByScoreDesc_unstable(docs) == Reverse(SortAsc(docs))

\* docs.sort(key=lambda x: x.score, reverse=True): the list is reversed,
\* sorted ascending and reversed again, which keeps equal scores in their order
SortByScoreDesc(docs) == Reverse(SortAsc(Reverse(docs)))

----------------------------------------------------------------------------
(* The vault as LocalObsidianReader sees it *)

Stems == {"a", "b", "c"}

\* the names a note file can have
FileNames == {s \o ".md" : s \in Stems}

\* what a [[wikilink]] can say: a note by name, a note that may not exist,
\* or a note by a relative path that names the same file
LinkTexts == Stems \cup {"./a"}

\* f"{link}.md"
LinkPath(link) == link \o ".md"

\* the paths a caller can ask about
QueryPaths == {LinkPath(l) : l \in LinkTexts}

\* vault_path / path: the file a relative path designates ("./a.md" is a.md)
FileOf(path) ==
    IF \E f \in FileNames : path = "./" \o f
    THEN CHOOSE f \in FileNames : path = "./" \o f
    ELSE path

\* MCPDocument(path, content, metadata, score=0.0), content kept as its wikilinks
MCPDocument(path, links, score) ==
    [tag |-> "MCPDocument", path |-> path, wikilinks |-> links, score |-> score]

\* LocalObsidianReader.get_note
get_note(path) ==
    IF FileOf(path) \notin files THEN None
    ELSE MCPDocument(path, wikilinks[FileOf(path)], Zero)

\* LocalObsidianReader.list_notes
list_notes == all_notes

\* the paths a vault or an index can hold, in alphabetical order
PathOrder == <<"a.md", "b.md", "c.md", "d.md", "e.md", "f.md", "g.md", "h.md">>

FirstPaths(n) == {PathOrder[i] : i \in 1..n}

InOrder(S) == SelectSeq(PathOrder, LAMBDA q : q \in S)

\* the orders rglob lists the files S in: alphabetical, or the reverse
Listings(S) == {InOrder(S), Reverse(InOrder(S))}

----------------------------------------------------------------------------
(* The graph: nx.DiGraph / SimpleDiGraph, dictionaries in insertion order *)

DiGraph == [tag |-> "DiGraph", nodes |-> <<>>, succ |-> <<>>, pred |-> <<>>]

HasNode(g, n) == n \in Range(g.nodes)

NodeIndex(g, n) == CHOOSE i \in 1..Len(g.nodes) : g.nodes[i] = n

add_node(g, n) ==
    IF HasNode(g, n) THEN g
    ELSE [g EXCEPT !.nodes = Append(@, n),
                   !.succ = Append(@, <<>>),
                   !.pred = Append(@, <<>>)]

SetDefault(list, v) == IF v \in Range(list) THEN list ELSE Append(list, v)

add_edge(g, u, v) ==
    LET g2 == add_node(add_node(g, u), v)
    IN  [g2 EXCEPT !.succ[NodeIndex(g2, u)] = SetDefault(@, v),
                   !.pred[NodeIndex(g2, v)] = SetDefault(@, u)]

successors(g, n) == IF HasNode(g, n) THEN g.succ[NodeIndex(g, n)] ELSE <<>>

predecessors(g, n) == IF HasNode(g, n) THEN g.pred[NodeIndex(g, n)] ELSE <<>>

\* the inner loop of _build_graph over one note's wikilinks
RECURSIVE AddLinkEdges(_, _, _, _)

\* the inner loop without its "if link_path in all_notes" test
AddLinkEdges_unlisted(g, note_path, links, listed) ==
    IF links = <<>> THEN g
    ELSE AddLinkEdges(add_edge(g, note_path, LinkPath(Head(links))),
                      note_path, Tail(links), listed)

AddLinkEdges(g, note_path, links, listed) ==
    IF links = <<>> THEN g
    ELSE LET link_path == LinkPath(Head(links))
             g2 == IF link_path \in Range(listed)
                   THEN add_edge(g, note_path, link_path)
                   ELSE g
         IN  AddLinkEdges(g2, note_path, Tail(links), listed)

\* the outer loop of _build_graph over all_notes
RECURSIVE AddNotes(_, _, _)
AddNotes(g, todo, listed) ==
    IF todo = <<>> THEN g
    ELSE LET note == get_note(Head(todo))
             g2 == IF note = None THEN g
                   ELSE AddLinkEdges(add_node(g, Head(todo)), Head(todo),
                                     note.wikilinks, listed)
         IN  AddNotes(g2, Tail(todo), listed)

\* GraphNavigator._build_graph: the graph it stores in _graph_cache
BuiltGraph == AddNotes(DiGraph, list_notes, list_notes)

\* the cache after "if self._graph_cache is None: await self._build_graph()"
EnsureGraph == IF graph_cache = None THEN BuiltGraph ELSE graph_cache

----------------------------------------------------------------------------
(* GraphNavigator queries *)

\* GraphNavigator.get_linked_notes
RECURSIVE ResolveLinks(_)
ResolveLinks(links) ==
    IF links = <<>> THEN <<>>
    ELSE LET link_path == LinkPath(Head(links))
         IN  (IF get_note(link_path) # None THEN <<link_path>> ELSE <<>>)
             \o ResolveLinks(Tail(links))

get_linked_notes(path) ==
    LET note == get_note(path)
    IN  IF note = None THEN <<>> ELSE ResolveLinks(note.wikilinks)

\* GraphNavigator.get_backlinks, on the graph it finds or builds
get_backlinks(g, path) ==
    IF ~HasNode(g, path) THEN <<>> ELSE predecessors(g, path)

\* the while loop of expand_context: to_visit is a FIFO of (path, depth) pairs
RECURSIVE Traverse(_, _, _, _)
Traverse(to_visit, visited, expanded_docs, depth) ==
    IF to_visit = <<>>
    THEN [visited |-> visited, expanded_docs |-> expanded_docs]
    ELSE LET current_path == Head(to_visit)[1]
             current_depth == Head(to_visit)[2]
             rest == Tail(to_visit)
             seen == visited \cup {current_path}
             note == get_note(current_path)
         IN  IF current_path \in visited
             THEN Traverse(rest, visited, expanded_docs, depth)
             ELSE IF note = None
             THEN Traverse(rest, seen, expanded_docs, depth)
             ELSE LET scored == [note EXCEPT !.score = Rat(1, current_depth + 1)]
                      linked == IF current_depth < depth
                                THEN get_linked_notes(current_path)
                                ELSE <<>>
                      fresh == SelectSeq(linked, LAMBDA l : l \notin seen)
                      queued == [i \in 1..Len(fresh) |->
                                     <<fresh[i], current_depth + 1>>]
                  IN  Traverse(rest \o queued, seen,
                               Append(expanded_docs, scored), depth)

\* the score expand_context gives a backlink of the original note
BacklinkScore == Rat(9, 10)

\* the backlink loop of expand_context
RECURSIVE BacklinkDocs(_, _)
BacklinkDocs(backlinks, visited) ==
    IF backlinks = <<>> THEN <<>>
    ELSE LET backlink_note == get_note(Head(backlinks))
         IN  (IF Head(backlinks) \notin visited /\ backlink_note # None
              THEN <<[backlink_note EXCEPT !.score = BacklinkScore]>>
              ELSE <<>>)
             \o BacklinkDocs(Tail(backlinks), visited)

\* expand_context without its "if backlink_path not in visited" test
expand_context_every_backlink(g, path, depth) ==
    LET t == Traverse(<<<<path, 0>>>>, {}, <<>>, depth)
    IN  SortByScoreDesc(t.expanded_docs
                        \o BacklinkDocs(get_backlinks(g, path), {}))

\* GraphNavigator.expand_context, on the graph get_backlinks finds or builds
expand_context(g, path, depth) ==
    LET t == Traverse(<<<<path, 0>>>>, {}, <<>>, depth)
    IN  SortByScoreDesc(t.expanded_docs
                        \o BacklinkDocs(get_backlinks(g, path), t.visited))

\* the path the fallback shortest_path reads back from prev, target first;
\* prev[n] is <<>> for None and <<m>> for the node m
RECURSIVE PathBack(_, _)
PathBack(prev, path) ==
    IF prev[path[Len(path)]] = <<>> THEN path
    ELSE PathBack(prev, Append(path, prev[path[Len(path)]][1]))

\* "for neigh in graph.successors(cur)" of the fallback shortest_path: the
\* path once target is met, else the queue and prev it leaves
RECURSIVE VisitNeighbours(_, _, _, _, _)
VisitNeighbours(neighs, cur, q, prev, target) ==
    IF neighs = <<>> THEN [found |-> FALSE, q |-> q, prev |-> prev]
    ELSE LET neigh == Head(neighs)
             prev2 == (neigh :> <<cur>>) @@ prev
         IN  IF neigh \in DOMAIN prev
             THEN VisitNeighbours(Tail(neighs), cur, q, prev, target)
             ELSE IF neigh = target
             THEN [found |-> TRUE, path |-> Reverse(PathBack(prev2, <<target>>))]
             ELSE VisitNeighbours(Tail(neighs), cur, Append(q, neigh), prev2, target)

\* "while q" of the fallback shortest_path; the empty sequence, which is no
\* path, stands for raise Exception("No path")
RECURSIVE Bfs(_, _, _, _)
Bfs(g, q, prev, target) ==
    IF q = <<>> THEN <<>>
    ELSE LET v == VisitNeighbours(successors(g, Head(q)), Head(q), Tail(q),
                                  prev, target)
         IN  IF v.found THEN v.path ELSE Bfs(g, v.q, v.prev, target)

\* shortest_path of the fallback (networkx not installed)
shortest_path(g, source, target) ==
    IF source = target THEN <<source>>
    ELSE Bfs(g, <<source>>, (source :> <<>>), target)

\* the walks of n nodes from source to target along the edges of g
Walks(g, source, target, n) ==
    {p \in [1..n -> Range(g.nodes)] :
        /\ p[1] = source
        /\ p[n] = target
        /\ \A i \in 1..(n - 1) : p[i + 1] \in Range(successors(g, p[i]))}

\* nx.shortest_path(graph, source, target) of networkx: NodeNotFound when an
\* endpoint is no node, NetworkXNoPath when target is unreachable (both give
\* the empty set here), else a path with the fewest edges; which one of
\* several is up to the library
nx_shortest_paths(g, source, target) ==
    LET lengths == {n \in 1..Len(g.nodes) : Walks(g, source, target, n) # {}}
    IN  IF lengths = {} THEN {}
        ELSE Walks(g, source, target,
                   CHOOSE n \in lengths : \A m \in lengths : n <= m)

\* a list returned where None can be returned too (Optional[List[str]])
ListValue(list) == [tag |-> "list", value |-> list]

\* GraphNavigator.find_path on the graph it finds or builds: the values it
\* can return, None when shortest_path raises
find_path(g, start, end, nx_available) ==
    IF nx_available
    THEN (IF nx_shortest_paths(g, start, end) = {} THEN {None}
          ELSE {ListValue(p) : p \in nx_shortest_paths(g, start, end)})
    ELSE (IF shortest_path(g, start, end) = <<>> THEN {None}
          ELSE {ListValue(shortest_path(g, start, end))})

\* set(graph.successors(n)) | set(graph.predecessors(n))
Neighbours(g, n) == Range(successors(g, n)) \cup Range(predecessors(g, n))

\* the loop of find_related_notes with "len(common) > similarity_threshold"
Related_above(g, path, similarity_threshold) ==
    LET target_neighbors == Neighbours(g, path)
        kept == SelectSeq(g.nodes, LAMBDA node :
                    /\ node # path
                    /\ Cardinality(target_neighbors \cap Neighbours(g, node))
                           > similarity_threshold)
    IN  [i \in 1..Len(kept) |->
            [node |-> kept[i],
             score |-> Rat(Cardinality(target_neighbors
                                           \cap Neighbours(g, kept[i])), 1)]]

\* the loop "for node in graph.nodes()" of find_related_notes: the pairs
\* (node, len(common)) it appends
Related(g, path, similarity_threshold) ==
    LET target_neighbors == Neighbours(g, path)
        kept == SelectSeq(g.nodes, LAMBDA node :
                    /\ node # path
                    /\ Cardinality(target_neighbors \cap Neighbours(g, node))
                           >= similarity_threshold)
    IN  [i \in 1..Len(kept) |->
            [node |-> kept[i],
             score |-> Rat(Cardinality(target_neighbors
                                           \cap Neighbours(g, kept[i])), 1)]]

\* GraphNavigator.find_related_notes on the graph it finds or builds
find_related_notes(g, path, similarity_threshold) ==
    IF ~HasNode(g, path) THEN <<>>
    ELSE LET related == SortByScoreDesc(Related(g, path, similarity_threshold))
         IN  [i \in 1..Len(related) |-> related[i].node]

\* the dictionary degrees of get_hub_notes as the list of its items, each
\* with the key of the sort
Degrees(g) ==
    [i \in 1..Len(g.nodes) |->
        [node |-> g.nodes[i],
         score |-> Rat(Len(predecessors(g, g.nodes[i]))
                           + Len(successors(g, g.nodes[i])), 1)]]

\* get_hub_notes cutting the list before it is sorted
get_hub_notes_unsorted_cut(g, top_k) ==
    LET sorted_nodes == SortByScoreDesc(Take(Degrees(g), top_k))
    IN  [i \in 1..Len(sorted_nodes) |->
            <<sorted_nodes[i].node, sorted_nodes[i].score[1]>>]

\* GraphNavigator.get_hub_notes on the graph it finds or builds, top_k >= 0
get_hub_notes(g, top_k) ==
    LET sorted_nodes == Take(SortByScoreDesc(Degrees(g)), top_k)
    IN  [i \in 1..Len(sorted_nodes) |->
            <<sorted_nodes[i].node, sorted_nodes[i].score[1]>>]

----------------------------------------------------------------------------
(* VectorRAG, seen from one query.  Its state is                            *)
(*   collection: what collection.query returns for the query, nearest      *)
(*               first, each entry the metadata path and 1 - distance      *)
(*   bm25:       None (no index built), or _doc_ids with the scores        *)
(*               _bm25.get_scores gives them for the query                  *)
(*   reranker:   whether CrossEncoder(...) loads ("ok") or raises          *)
(*   ce_score:   the score CrossEncoder.predict gives each document        *)

\* document of the index: no wikilinks are read from it
IndexDoc(path, score) == MCPDocument(path, <<>>, score)

Scores(docs) == [i \in 1..Len(docs) |-> docs[i].score]

\* an operation's outcome: a list, or an exception
Returned(docs) == [exc |-> "", value |-> docs]
Raised(name) == [exc |-> name, value |-> <<>>]

\* VectorRAG.semantic_search
vector_semantic_search(v, k) ==
    [i \in 1..Min(k, Len(v.collection)) |->
        IndexDoc(v.collection[i].path, v.collection[i].score)]

\* np.argsort(bm25_scores)[::-1]: the indices by descending score; numpy
\* leaves the order of equal scores open, so every such order can come out
ArgSortsDesc(scores) ==
    {p \in Perms(1..Len(scores)) :
        \A i \in 1..(Len(scores) - 1) : RGe(scores[p[i]], scores[p[i + 1]])}

\* x / y of numpy.float64: 0/0 is nan and no exception (bm25 scores are >= 0,
\* so the dividend is 0 whenever the maximum is)
NumpyDiv(x, y) == IF y = Zero THEN NaN ELSE RDiv(x, y)

IndexOfPath(entries, path) ==
    CHOOSE i \in 1..Len(entries) : entries[i].path = path

\* the loop "for doc in vector_docs" of hybrid_search
VectorEntries(vector_docs, max_vector_score, vector_weight) ==
    [i \in 1..Len(vector_docs) |->
        [path |-> vector_docs[i].path,
         vector |-> RMul(RDiv(vector_docs[i].score, max_vector_score),
                         vector_weight),
         bm25 |-> Zero]]

\* the loop "for idx in bm25_indices" of hybrid_search
RECURSIVE AddBm25(_, _, _, _, _)
AddBm25(entries, bm25_indices, bm25, max_bm25_score, vector_weight) ==
    IF bm25_indices = <<>> THEN entries
    ELSE LET idx == Head(bm25_indices)
             doc_id == bm25.doc_ids[idx]
             part == RMul(NumpyDiv(bm25.scores[idx], max_bm25_score),
                          RSub(One, vector_weight))
             next == IF \E i \in 1..Len(entries) : entries[i].path = doc_id
                     THEN [entries EXCEPT ![IndexOfPath(entries, doc_id)].bm25 = part]
                     ELSE Append(entries,
                                 [path |-> doc_id, vector |-> Zero, bm25 |-> part])
         IN  AddBm25(next, Tail(bm25_indices), bm25, max_bm25_score, vector_weight)

\* the merged candidates of hybrid_search with their final scores, before the
\* sort (doc_scores, in insertion order)
MergedDocs(v, k, vector_weight, order) ==
    LET vector_docs == vector_semantic_search(v, k * 2)
        max_vector_score == IF vector_docs # <<>> THEN RMax(Scores(vector_docs))
                            ELSE One
        entries == AddBm25(VectorEntries(vector_docs, max_vector_score, vector_weight),
                           Take(order, k * 2), v.bm25, RMax(v.bm25.scores),
                           vector_weight)
    IN  [i \in 1..Len(entries) |->
            IndexDoc(entries[i].path, RAdd(entries[i].vector, entries[i].bm25))]

\* VectorRAG.hybrid_search; order is the outcome of the argsort
vector_hybrid_search(v, k, vector_weight, order) ==
    LET vector_docs == vector_semantic_search(v, k * 2)
    IN  IF v.bm25 = None THEN Returned(Take(vector_docs, k))
        ELSE IF vector_docs # <<>> /\ RMax(Scores(vector_docs)) = Zero
        THEN Raised("ZeroDivisionError")
        ELSE Returned(Take(SortByScoreDesc(MergedDocs(v, k, vector_weight, order)), k))

\* the argsort outcomes hybrid_search can see
Orders(v) == IF v.class = "VectorRAG" /\ v.bm25 # None
             THEN ArgSortsDesc(v.bm25.scores) ELSE {<<>>}

\* MockVectorRAG.semantic_search: a document matches when the query occurs in
\* its content (matches > 0 times); its score is matches / number of words
mock_semantic_search(v, k) ==
    LET hits == SelectSeq(v.documents, LAMBDA d : d.matches > 0)
        results == [i \in 1..Len(hits) |->
                       IndexDoc(hits[i].path, Rat(hits[i].matches, hits[i].words))]
    IN  Take(SortByScoreDesc(results), k)

\* IVectorMCP.semantic_search of the client in use
semantic_search(v, k) ==
    IF v.class = "VectorRAG" THEN vector_semantic_search(v, k)
    ELSE mock_semantic_search(v, k)

\* IVectorMCP.hybrid_search of the client in use (the mock falls back to
\* semantic_search)
hybrid_search(v, k, vector_weight, order) ==
    IF v.class = "VectorRAG" THEN vector_hybrid_search(v, k, vector_weight, order)
    ELSE Returned(mock_semantic_search(v, k))

----------------------------------------------------------------------------
(* RAGPipeline: configuration and retrieval strategies *)

\* RAGConfig, the fields retrieval and context assembly read
RAGConfig(top_k, graph_depth, vector_weight, rerank, max_context_tokens) ==
    [top_k |-> top_k, graph_depth |-> graph_depth,
     vector_weight |-> vector_weight, rerank |-> rerank,
     max_context_tokens |-> max_context_tokens]

\* RAGConfig(): the defaults of the dataclass
DefaultConfig == RAGConfig(5, 2, Rat(3, 5), TRUE, 4000)

\* what one call did on the way:
\*   order:     the outcome of hybrid_search's argsort
\*   hybrid:    the list hybrid_search returned
\*   rerank_in: the candidate lists passed to rerank, one per call
\*   expanded:  the (path, depth) arguments of the calls of expand_context
NoLog == [order |-> <<>>, hybrid |-> <<>>, rerank_in |-> <<>>, expanded |-> <<>>]

\* VectorRAG.rerank
rerank(v, candidates, top_k) ==
    IF v.reranker # "ok" THEN Take(candidates, top_k)
    ELSE LET reranked == [i \in 1..Len(candidates) |->
                             [doc |-> candidates[i],
                              score |-> v.ce_score[candidates[i].path]]]
             sorted == SortByScoreDesc(reranked)
         IN  [i \in 1..Min(top_k, Len(sorted)) |->
                 [sorted[i].doc EXCEPT !.score = sorted[i].score]]

\* whether the client in use has a rerank method: VectorRAG defines one,
\* MockVectorRAG and the interface IVectorMCP do not
HasRerank(v) == v.class = "VectorRAG"

\* _hybrid_retrieval with "len(results) >= 3" for "len(results) > 3"
RerankWanted_from_three(results) == config.rerank /\ Len(results) >= 3

\* "if self.config.rerank and len(results) > 3" of _hybrid_retrieval
RerankWanted(results) == config.rerank /\ Len(results) > 3

\* the outcome of a pipeline step: Returned or Raised, with the log, and
\* whether the graph was built on the way
Outcome(r, lg, built) ==
    [exc |-> r.exc, value |-> r.value, log |-> lg, built |-> built]

\* RAGPipeline._hybrid_retrieval
HybridStep(h, lg) ==
    IF h.exc # "" THEN Outcome(h, lg, FALSE)
    ELSE IF ~RerankWanted(h.value) THEN Outcome(h, lg, FALSE)
    ELSE IF ~HasRerank(vector) THEN Outcome(Raised("AttributeError"), lg, FALSE)
    ELSE Outcome(Returned(rerank(vector, h.value, Min(3, Len(h.value)))),
                 [lg EXCEPT !.rerank_in = <<h.value>>], FALSE)

hybrid_retrieval(order) ==
    LET h == hybrid_search(vector, config.top_k, config.vector_weight, order)
    IN  HybridStep(h, [NoLog EXCEPT !.order = order, !.hybrid = h.value])

\* the loops "for doc in ...: for graph_doc in graph_docs" of the graph and
\* full strategies: the documents whose path was not seen, in order
RECURSIVE Unseen(_, _)
Unseen(docs, seen_paths) ==
    IF docs = <<>> THEN <<>>
    ELSE IF Head(docs).path \in seen_paths THEN Unseen(Tail(docs), seen_paths)
    ELSE <<Head(docs)>> \o Unseen(Tail(docs), seen_paths \cup {Head(docs).path})

\* ExpandAll where get_backlinks builds no graph: without a cached graph it
\* takes its "if graph is None: return []" branch
RECURSIVE ExpandAll_unbuilt(_, _)
ExpandAll_unbuilt(seeds, depth) ==
    IF seeds = <<>> THEN <<>>
    ELSE expand_context(IF graph_cache = None THEN DiGraph ELSE graph_cache,
                        Head(seeds).path, depth)
         \o ExpandAll_unbuilt(Tail(seeds), depth)

\* the results of expand_context for each seed, one after the other
RECURSIVE ExpandAll(_, _)
ExpandAll(seeds, depth) ==
    IF seeds = <<>> THEN <<>>
    ELSE expand_context(EnsureGraph, Head(seeds).path, depth)
         \o ExpandAll(Tail(seeds), depth)

Expansions(seeds, depth) ==
    [i \in 1..Len(seeds) |-> [path |-> seeds[i].path, depth |-> depth]]

\* RAGPipeline._graph_retrieval
GraphStep(initial) ==
    IF initial.exc # "" \/ initial.value = <<>> THEN initial
    ELSE LET seeds == Take(initial.value, 3)
             expanded_docs == Unseen(ExpandAll(seeds, config.graph_depth), {})
         IN  Outcome(Returned(Take(SortByScoreDesc(expanded_docs), config.top_k)),
                     [initial.log EXCEPT !.expanded =
                          Expansions(seeds, config.graph_depth)],
                     TRUE)

graph_retrieval(order) == GraphStep(hybrid_retrieval(order))

\* RAGPipeline._full_retrieval
FullStep(hybrid) ==
    IF hybrid.exc # "" THEN hybrid
    ELSE LET hybrid_docs == hybrid.value
             seeds == Take(hybrid_docs, 2)
             graph_docs == Unseen(ExpandAll(seeds, 2),
                                  {hybrid_docs[i].path : i \in 1..Len(hybrid_docs)})
             all_docs == hybrid_docs \o graph_docs
         IN  Outcome(Returned(Take(SortByScoreDesc(all_docs), config.top_k)),
                     [hybrid.log EXCEPT !.expanded = Expansions(seeds, 2)],
                     seeds # <<>>)

full_retrieval(order) == FullStep(hybrid_retrieval(order))

\* the content of a note as a search reads it: the query occurs once in it,
\* and its number of words goes with its path
NoteMatches(path) == 1
NoteWords(path) == CHOOSE i \in 1..Len(PathOrder) : PathOrder[i] = FileOf(path)

\* LocalObsidianReader.search_vault
search_vault ==
    LET hits == SelectSeq(list_notes, LAMBDA p : get_note(p) # None
                                                  /\ NoteMatches(p) > 0)
    IN  SortByScoreDesc([i \in 1..Len(hits) |->
            [get_note(hits[i]) EXCEPT
                !.score = Rat(NoteMatches(hits[i]), NoteWords(hits[i]))]])

\* RAGPipeline._keyword_retrieval
keyword_retrieval == Take(search_vault, config.top_k)

\* the strategy names retrieve knows
KnownStrategies == {"vector", "keyword", "hybrid", "graph", "full"}

\* retrieve with a default: a strategy without a branch is served as hybrid
retrieve_default(strategy, order) ==
    CASE strategy = "vector" ->
             Outcome(Returned(semantic_search(vector, config.top_k)), NoLog, FALSE)
      [] strategy = "keyword" -> Outcome(Returned(keyword_retrieval), NoLog, FALSE)
      [] strategy = "hybrid" -> hybrid_retrieval(order)
      [] strategy = "graph" -> graph_retrieval(order)
      [] strategy = "full" -> full_retrieval(order)
      [] strategy \notin KnownStrategies -> hybrid_retrieval(order)

\* RAGPipeline.retrieve (the keyword strategy, a text search of the vault,
\* is not part of this model)
retrieve(strategy, order) ==
    CASE strategy = "vector" ->
             Outcome(Returned(semantic_search(vector, config.top_k)), NoLog, FALSE)
      [] strategy = "keyword" -> Outcome(Returned(keyword_retrieval), NoLog, FALSE)
      [] strategy = "hybrid" -> hybrid_retrieval(order)
      [] strategy = "graph" -> graph_retrieval(order)
      [] strategy = "full" -> full_retrieval(order)
      [] strategy \notin KnownStrategies ->
             Outcome(Raised("ValueError"), NoLog, FALSE)

----------------------------------------------------------------------------
(* RAGPipeline.build_context: the token budget.  A text is the sequence of  *)
(* its characters.                                                          *)

\* ContextOptimizer.estimate_tokens
estimate_tokens(text) == Len(text) \div 4

\* "\n... [truncated]"
TruncationMarker ==
    <<"\n", ".", ".", ".", " ", "[", "t", "r", "u", "n", "c", "a", "t", "e", "d", "]">>

\* int(len(context) * (max_context_tokens / estimated_tokens)), computed
\* exactly (the float product can fall just short of a whole number)
TargetLength(context, max_context_tokens) ==
    (Len(context) * max_context_tokens) \div estimate_tokens(context)

\* the end of build_context: "Ensure within token limit"
WithinLimit(context, max_context_tokens) ==
    IF estimate_tokens(context) > max_context_tokens
    THEN Take(context, TargetLength(context, max_context_tokens))
         \o TruncationMarker
    ELSE context

\* str.rfind("."): the index, from 0, of the last "." of text, or -1
RECURSIVE rfind_period(_)
rfind_period(text) ==
    IF text = <<>> THEN -1
    ELSE IF text[Len(text)] = "." THEN Len(text) - 1
    ELSE rfind_period(SubSeq(text, 1, Len(text) - 1))

\* the largest power of two that is at most k, k >= 1
RECURSIVE PowerOfTwoBelow(_)
PowerOfTwoBelow(k) == IF k < 2 THEN 1 ELSE 2 * PowerOfTwoBelow(k \div 2)

\* last_period > max_chars * 0.7 in double arithmetic.  The double 0.7 is
\* 0.7 - 0.4 * 2^-53, so the exact product is short of 0.7 * max_chars by
\* 0.4 * max_chars * 2^-53; when 0.7 * max_chars is a whole number k, the
\* product is rounded to k if that is at most half the spacing 2^(e-52) of
\* the doubles below k, 2^e the largest power of two that is at most k, and
\* to a double below k otherwise.
BeyondSeventyPercent(last_period, max_chars) ==
    \/ 10 * last_period > 7 * max_chars
    \/ /\ 10 * last_period = 7 * max_chars
       /\ last_period >= 1
       /\ 2 * max_chars > 5 * PowerOfTwoBelow(last_period)

\* RAGPipeline._truncate_content
truncate_content(content, max_chars) ==
    IF Len(content) <= max_chars THEN content
    ELSE LET truncated == Take(content, max_chars)
             last_period == rfind_period(truncated)
         IN  IF BeyondSeventyPercent(last_period, max_chars)
             THEN Take(truncated, last_period + 1)
             ELSE truncated \o <<".", ".", ".">>

----------------------------------------------------------------------------
(* The graph navigator as a state machine: a vault, and queries on it *)

\* the depths a caller passes to expand_context: 0..MaxDepth
MaxDepth == 2

\* the number of wikilinks in the whole vault: 0..MaxLinks
MaxLinks == 2

RECURSIVE SumLen(_, _)
SumLen(f, S) ==
    IF S = {} THEN 0
    ELSE LET x == CHOOSE y \in S : TRUE
         IN  Len(f[x]) + SumLen(f, S \ {x})

\* a.md exists; c.md, or b.md and c.md, may be missing, so that links can
\* dangle
VaultInit ==
    /\ files \in {{"a.md"}, {"a.md", "b.md"}, FileNames}
    /\ wikilinks \in {w \in [files -> SeqsUpTo(LinkTexts, MaxLinks)] :
                          SumLen(w, files) <= MaxLinks}
    /\ all_notes \in Listings(files)

\* no vector client
NoVector == [class |-> "None"]

Init ==
    /\ VaultInit
    /\ graph_cache = None
    /\ vector = NoVector
    /\ config = DefaultConfig
    /\ call = [op |-> "init"]
    /\ ret = <<>>
    /\ exc = ""
    /\ log = NoLog

GetLinkedNotes(path) ==
    /\ call' = [op |-> "get_linked_notes", path |-> path]
    /\ ret' = get_linked_notes(path)
    /\ UNCHANGED <<vault, graph_cache, vector, config, exc, log>>

GetBacklinks(path) ==
    \E graph \in {EnsureGraph} :
        /\ call' = [op |-> "get_backlinks", path |-> path]
        /\ graph_cache' = graph
        /\ ret' = get_backlinks(graph, path)
        /\ UNCHANGED <<vault, vector, config, exc, log>>

ExpandContext(path, depth) ==
    \E graph \in {EnsureGraph} :
        /\ call' = [op |-> "expand_context", path |-> path, depth |-> depth]
        /\ graph_cache' = graph
        /\ ret' = expand_context(graph, path, depth)
        /\ UNCHANGED <<vault, vector, config, exc, log>>

Next ==
    \/ \E path \in QueryPaths : GetLinkedNotes(path)
    \/ \E path \in QueryPaths : GetBacklinks(path)
    \/ \E path \in QueryPaths, depth \in 0..MaxDepth : ExpandContext(path, depth)

Spec == Init /\ [][Next]_vars

----------------------------------------------------------------------------
(* Building the graph as a state machine: the vaults of Spec, calls of      *)
(* _build_graph, and get_backlinks, which builds when nothing is cached     *)

\* GraphNavigator._build_graph; rglob lists the notes in the order the file
\* system gives them
BuildGraph ==
    \E listed \in Listings(files) :
        /\ all_notes' = listed
        /\ graph_cache' = AddNotes(DiGraph, listed, listed)
        /\ call' = [op |-> "_build_graph"]
        /\ ret' = <<>>
        /\ UNCHANGED <<files, wikilinks, vector, config, exc, log>>

BuildNext ==
    \/ BuildGraph
    \/ \E path \in QueryPaths : GetBacklinks(path)

SpecBuild == Init /\ [][BuildNext]_vars

----------------------------------------------------------------------------
(* Score fusion as a state machine: an index, and searches on it *)

\* the k a caller passes to the searches: 1..MaxK
MaxK == 2

\* the number of documents in the collection: 0..MaxFused
MaxFused == 3

\* 1 - cosine distance lies in [-1, 1]
VecScores == {Rat(-1, 1), Rat(-1, 2), Zero, Rat(1, 2), One}

\* BM25 scores of a query: 0 when no term of it occurs in the document
Bm25Scores == {Zero, One, Rat(2, 1)}

\* vector_weight
Weights == {Zero, Rat(3, 5), One}

\* the query results a collection of up to n documents can give, nearest
\* (highest score) first; the documents are named in the order of the result
Collections(n, S) ==
    {[i \in 1..Len(sc) |-> [path |-> PathOrder[i], score |-> sc[i]]] :
        sc \in {t \in SeqsUpTo(S, n) :
                    \A i \in 1..(Len(t) - 1) : RGe(t[i], t[i + 1])}}

\* the BM25 indexes over documents of P (none while nothing was added); every
\* document of the index is in the collection, which add_documents fills first
Bm25Indexes(P, S) ==
    {None} \cup
    UNION {{[doc_ids |-> InOrder(D), scores |-> sc] : sc \in [1..Cardinality(D) -> S]} :
               D \in (SUBSET P) \ {{}}}

VectorRAG(collection, bm25, reranker, ce_score) ==
    [class |-> "VectorRAG", collection |-> collection, bm25 |-> bm25,
     reranker |-> reranker, ce_score |-> ce_score]

FusionInit ==
    /\ files = {}
    /\ wikilinks = <<>>
    /\ all_notes = <<>>
    /\ graph_cache = None
    /\ \E c \in Collections(MaxFused, VecScores) :
           \E b \in Bm25Indexes(FirstPaths(Len(c)), Bm25Scores) :
               vector = VectorRAG(c, b, "ok", <<>>)
    /\ config = DefaultConfig
    /\ call = [op |-> "init"]
    /\ ret = <<>>
    /\ exc = ""
    /\ log = NoLog

SemanticSearch(k) ==
    /\ call' = [op |-> "semantic_search", k |-> k]
    /\ ret' = semantic_search(vector, k)
    /\ exc' = ""
    /\ log' = NoLog
    /\ UNCHANGED <<vault, graph_cache, vector, config>>

HybridSearch(k, vector_weight) ==
    \E order \in Orders(vector) :
        \E r \in {hybrid_search(vector, k, vector_weight, order)} :
            /\ call' = [op |-> "hybrid_search", k |-> k,
                        vector_weight |-> vector_weight]
            /\ ret' = r.value
            /\ exc' = r.exc
            /\ log' = [NoLog EXCEPT !.order = order]
            /\ UNCHANGED <<vault, graph_cache, vector, config>>

FusionNext ==
    \/ \E k \in 1..MaxK : SemanticSearch(k)
    \/ \E k \in 1..MaxK, w \in Weights : HybridSearch(k, w)

SpecFusion == FusionInit /\ [][FusionNext]_vars

----------------------------------------------------------------------------
(* The hybrid strategy as a state machine: a vector client, a configuration, *)
(* and retrievals that need no vault                                        *)

\* the number of documents in the index: 0..MaxDocs
MaxDocs == 5

\* top_k of the configuration: below and above the reranking threshold
TopKs == {2, 4}

\* the number of documents in the batch added last: 1..MaxBatch
MaxBatch == 2

\* the BM25 indexes add_documents leaves behind: the index holds the batch
\* added last, here the last documents of the collection
SuffixIndexes(c, S, batch) ==
    {None} \cup
    UNION {{[doc_ids |-> [i \in 1..n |-> c[Len(c) - n + i].path],
             scores |-> sc] : sc \in [1..n -> S]} :
               n \in 1..Min(batch, Len(c))}

\* CrossEncoder.predict: scores that reverse the order of the paths, or
\* scores that are all equal
Reversing ==
    [p \in Range(PathOrder) |->
        Rat(CHOOSE i \in 1..Len(PathOrder) : PathOrder[i] = p, 1)]

AllEqual == [p \in Range(PathOrder) |-> Zero]

CeScores == {Reversing, AllEqual}

\* whether CrossEncoder(...) loads, and what it predicts
Rerankers ==
    {[reranker |-> "ok", ce_score |-> ce] : ce \in CeScores}
    \cup {[reranker |-> "OSError", ce_score |-> <<>>]}

VectorRAGs(n, V, B, batch, R) ==
    UNION {{VectorRAG(c, b, r.reranker, r.ce_score) :
               b \in SuffixIndexes(c, B, batch), r \in R} :
               c \in Collections(n, V)}

\* MockVectorRAG with the documents added to it; for the query, a document
\* has matches occurrences in words words
MockDocs == {[matches |-> 0, words |-> 1], [matches |-> 1, words |-> 1],
             [matches |-> 1, words |-> 2]}

MockVectorRAGs(n) ==
    {[class |-> "MockVectorRAG",
      documents |-> [i \in 1..Len(d) |->
                        [path |-> PathOrder[i], matches |-> d[i].matches,
                         words |-> d[i].words]]] : d \in SeqsUpTo(MockDocs, n)}

HybridInit ==
    /\ files = {}
    /\ wikilinks = <<>>
    /\ all_notes = <<>>
    /\ graph_cache = None
    /\ vector \in VectorRAGs(MaxDocs, {One, Rat(1, 2)}, {Zero, One}, MaxBatch,
                             Rerankers)
                      \cup MockVectorRAGs(MaxDocs)
    /\ config \in {RAGConfig(k, 2, Rat(3, 5), r, 4000) :
                       k \in TopKs, r \in BOOLEAN}
    /\ call = [op |-> "init"]
    /\ ret = <<>>
    /\ exc = ""
    /\ log = NoLog

\* RAGPipeline.retrieve
Retrieve(strategy) ==
    \E order \in Orders(vector) :
        \E r \in {retrieve(strategy, order)} :
            /\ call' = [op |-> "retrieve", strategy |-> strategy]
            /\ ret' = r.value
            /\ exc' = r.exc
            /\ log' = r.log
            /\ graph_cache' = IF r.built THEN EnsureGraph ELSE graph_cache
            /\ UNCHANGED <<vault, vector, config>>

HybridNext == \E strategy \in {"vector", "hybrid", "semantic"} : Retrieve(strategy)

SpecHybrid == HybridInit /\ [][HybridNext]_vars

----------------------------------------------------------------------------
(* The graph and full strategies as a state machine: a vault, an index over *)
(* its notes, a configuration, and retrievals                               *)

\* the number of notes in the vault, all of them indexed or not
MaxNotes == 4

\* the number of wikilinks in the whole vault: 0..MaxRefs
MaxRefs == 2

\* "a.md" -> "a"
Stem(path) == CHOOSE l \in {"a", "b", "c", "d", "e", "f", "g", "h"} : LinkPath(l) = path

ExpandInit ==
    /\ files = FirstPaths(MaxNotes)
    /\ wikilinks \in {w \in [files -> SeqsUpTo({Stem(f) : f \in files}, MaxRefs)] :
                          SumLen(w, files) <= MaxRefs}
    /\ all_notes \in {InOrder(files)}
    /\ graph_cache = None
    /\ vector \in VectorRAGs(MaxNotes, {One}, {Zero, One}, 1,
                             {[reranker |-> "ok", ce_score |-> Reversing]})
    /\ config \in {RAGConfig(k, d, Rat(3, 5), r, 4000) :
                       k \in TopKs, d \in 1..2, r \in BOOLEAN}
    /\ call = [op |-> "init"]
    /\ ret = <<>>
    /\ exc = ""
    /\ log = NoLog

ExpandNext == \E strategy \in {"graph", "full"} : Retrieve(strategy)

SpecExpand == ExpandInit /\ [][ExpandNext]_vars

----------------------------------------------------------------------------
(* Context assembly as a state machine: a token budget, and serialised      *)
(* contexts of every length                                                 *)

\* the number of characters of the serialised context: 0..MaxChars
MaxChars == 100

\* max_context_tokens of the configuration: 1..MaxTokens
MaxTokens == 10

\* the serialised documents, as far as their length goes
Texts == {[i \in 1..n |-> "x"] : n \in 0..MaxChars}

ContextInit ==
    /\ files = {}
    /\ wikilinks = <<>>
    /\ all_notes = <<>>
    /\ graph_cache = None
    /\ vector = NoVector
    /\ config \in {RAGConfig(5, 2, Rat(3, 5), TRUE, m) : m \in 1..MaxTokens}
    /\ call = [op |-> "init"]
    /\ ret = <<>>
    /\ exc = ""
    /\ log = NoLog

\* RAGPipeline.build_context, from the serialised text on
BuildContext(context) ==
    /\ call' = [op |-> "build_context", context |-> context]
    /\ ret' = WithinLimit(context, config.max_context_tokens)
    /\ exc' = ""
    /\ UNCHANGED <<vault, graph_cache, vector, config, log>>

ContextNext == \E context \in Texts : BuildContext(context)

SpecContext == ContextInit /\ [][ContextNext]_vars

----------------------------------------------------------------------------
(* Path finding and related notes as a state machine: a vault with more     *)
(* links, and every query of the graph navigator on it                      *)

\* the number of wikilinks in the whole vault: 0..MaxEdges
MaxEdges == 3

\* similarity_threshold of find_related_notes (2 is its default)
Thresholds == {1, 2}

\* the depths asked of expand_context (2 is its default)
Depths == {1, 2}

\* the paths asked about: the notes, of which c.md may be missing
GraphPaths == FileNames

\* the notes a.md and b.md exist, c.md may be missing; wikilinks name notes
GraphInit ==
    /\ files \in {{"a.md", "b.md"}, FileNames}
    /\ wikilinks \in {w \in [files -> SeqsUpTo(Stems, MaxEdges)] :
                          SumLen(w, files) <= MaxEdges}
    /\ all_notes \in {InOrder(files)}
    /\ graph_cache = None
    /\ vector = NoVector
    /\ config = DefaultConfig
    /\ call = [op |-> "init"]
    /\ ret = <<>>
    /\ exc = ""
    /\ log = NoLog

\* GraphNavigator.find_path; nx_available says which shortest_path the
\* module imported
FindPath(start, end, nx_available) ==
    \E graph \in {EnsureGraph} :
        \E path \in find_path(graph, start, end, nx_available) :
            /\ call' = [op |-> "find_path", start |-> start, end |-> end,
                        nx_available |-> nx_available]
            /\ graph_cache' = graph
            /\ ret' = path
            /\ UNCHANGED <<vault, vector, config, exc, log>>

FindRelatedNotes(path, similarity_threshold) ==
    \E graph \in {EnsureGraph} :
        /\ call' = [op |-> "find_related_notes", path |-> path,
                    similarity_threshold |-> similarity_threshold]
        /\ graph_cache' = graph
        /\ ret' = find_related_notes(graph, path, similarity_threshold)
        /\ UNCHANGED <<vault, vector, config, exc, log>>

GraphNext ==
    \/ \E path \in GraphPaths : GetLinkedNotes(path)
    \/ \E path \in GraphPaths : GetBacklinks(path)
    \/ \E path \in GraphPaths, depth \in Depths : ExpandContext(path, depth)
    \/ \E start, end \in GraphPaths, nx_available \in BOOLEAN :
           FindPath(start, end, nx_available)
    \/ \E path \in GraphPaths, t \in Thresholds : FindRelatedNotes(path, t)

SpecGraph == GraphInit /\ [][GraphNext]_vars

----------------------------------------------------------------------------
(* OllamaEmbedder as a state machine: batches of texts, and what the        *)
(* embedding service answers for each                                       *)

\* the number of texts in a batch: 0..MaxTexts
MaxTexts == 4

\* what a request can come to: a response with an embedding, a response
\* without one, a network error (httpx.RequestError), or a response with an
\* error status, for which raise_for_status raises httpx.HTTPStatusError
Responses == {"embedding", "no embedding", "RequestError", "error status"}

\* the embedding of the i-th text of a batch
Embedding(i) == <<i>>

\* OllamaEmbedder.embed for the i-th text; only httpx.RequestError is caught,
\* and httpx.HTTPStatusError is no RequestError
embed(i, response) ==
    CASE response = "embedding" -> Returned(Embedding(i))
      [] response = "no embedding" -> Returned(<<>>)
      [] response = "RequestError" -> Returned(<<>>)
      [] response = "error status" -> Raised("HTTPStatusError")

\* OllamaEmbedder.embed_batch: asyncio.gather raises what a task raises
embed_batch(responses) ==
    LET embeddings == [i \in 1..Len(responses) |-> embed(i, responses[i])]
        failed == {i \in 1..Len(responses) : embeddings[i].exc # ""}
    IN  IF failed # {}
        THEN Raised(embeddings[CHOOSE i \in failed : TRUE].exc)
        ELSE Returned(SelectSeq([i \in 1..Len(responses) |-> embeddings[i].value],
                                LAMBDA emb : emb # <<>>))

EmbedInit ==
    /\ files = {}
    /\ wikilinks = <<>>
    /\ all_notes = <<>>
    /\ graph_cache = None
    /\ vector = NoVector
    /\ config = DefaultConfig
    /\ call = [op |-> "init"]
    /\ ret = <<>>
    /\ exc = ""
    /\ log = NoLog

EmbedBatch(responses) ==
    \E r \in {embed_batch(responses)} :
        /\ call' = [op |-> "embed_batch", responses |-> responses]
        /\ ret' = r.value
        /\ exc' = r.exc
        /\ UNCHANGED <<vault, graph_cache, vector, config, log>>

EmbedNext == \E responses \in SeqsUpTo(Responses, MaxTexts) : EmbedBatch(responses)

SpecEmbed == EmbedInit /\ [][EmbedNext]_vars

----------------------------------------------------------------------------
(* Index stores as a state machine: MockVectorRAG and LocalVectorStore,     *)
(* batches added to them, and searches                                      *)

\* the number of documents of a batch: 1..MaxAdd
MaxAdd == 2

\* the number of documents the stores are filled up to
MaxStored == 4

\* the number of distinct documents (paths, chunk ids) there are
MaxKeys == 3

\* the document of a path as MockVectorRAG keeps it: the query occurs once in
\* it, and its content, so its number of words, goes with the path
StoredDoc(path) ==
    [path |-> path, matches |-> 1,
     words |-> CHOOSE i \in 1..Len(PathOrder) : PathOrder[i] = path]

\* the chunk of an id, with an embedding or with None for it
DocumentChunk(id, embedding) == [id |-> id, embedding |-> embedding]

\* the batches of documents a caller adds: no path twice within a batch
Batches(n, m) ==
    {b \in SeqsUpTo(FirstPaths(n), m) :
        b # <<>> /\ \A i, j \in 1..Len(b) : b[i] = b[j] => i = j}

\* MockVectorRAG(): no documents
MockVectorRAG == [class |-> "MockVectorRAG", documents |-> <<>>]

\* MockVectorRAG.add_documents: self._documents.extend(documents)
mock_add_documents(v, documents) ==
    [v EXCEPT !.documents = @ \o documents]

\* LocalVectorStore(persist_path) where no file is there yet: _chunks (a
\* dictionary, kept as its values in insertion order), _matrix and the file
LocalVectorStore ==
    [class |-> "LocalVectorStore", chunks |-> <<>>, matrix |-> None,
     saved |-> <<>>]

\* self._chunks[chunk.id] = chunk: a known id keeps its place
SetChunk(chunks, chunk) ==
    IF \E i \in 1..Len(chunks) : chunks[i].id = chunk.id
    THEN [i \in 1..Len(chunks) |->
             IF chunks[i].id = chunk.id THEN chunk ELSE chunks[i]]
    ELSE Append(chunks, chunk)

RECURSIVE SetChunks(_, _)
SetChunks(chunks, added) ==
    IF added = <<>> THEN chunks
    ELSE SetChunks(SetChunk(chunks, Head(added)), Tail(added))

\* LocalVectorStore.add
store_add(store, added) ==
    LET chunks == SetChunks(store.chunks, added)
        with_embedding == SelectSeq(chunks, LAMBDA c : c.embedding # None)
        all_embeddings == [i \in 1..Len(with_embedding) |->
                              with_embedding[i].embedding]
    IN  [store EXCEPT !.chunks = chunks,
                      !.matrix = IF all_embeddings # <<>>
                                 THEN ListValue(all_embeddings) ELSE @,
                      !.saved = chunks]

IndexInit ==
    /\ files = {}
    /\ wikilinks = <<>>
    /\ all_notes = <<>>
    /\ graph_cache = None
    /\ vector \in {MockVectorRAG, LocalVectorStore}
    /\ config = DefaultConfig
    /\ call = [op |-> "init"]
    /\ ret = <<>>
    /\ exc = ""
    /\ log = NoLog

\* MockVectorRAG.add_documents
AddDocuments(paths) ==
    /\ vector.class = "MockVectorRAG"
    /\ Len(vector.documents) + Len(paths) <= MaxStored
    /\ call' = [op |-> "add_documents", paths |-> paths]
    /\ vector' = mock_add_documents(vector,
                      [i \in 1..Len(paths) |-> StoredDoc(paths[i])])
    /\ ret' = <<>>
    /\ exc' = ""
    /\ UNCHANGED <<vault, graph_cache, config, log>>

\* MockVectorRAG.semantic_search
MockSearch(k) ==
    /\ vector.class = "MockVectorRAG"
    /\ SemanticSearch(k)

\* LocalVectorStore.add
StoreAdd(added) ==
    /\ vector.class = "LocalVectorStore"
    /\ call' = [op |-> "add", chunks |-> added]
    /\ vector' = store_add(vector, added)
    /\ ret' = <<>>
    /\ exc' = ""
    /\ UNCHANGED <<vault, graph_cache, config, log>>

IndexNext ==
    \/ \E paths \in Batches(MaxKeys, MaxAdd) : AddDocuments(paths)
    \/ \E k \in 1..MaxStored : MockSearch(k)
    \/ \E ids \in Batches(MaxKeys, MaxAdd) :
           \E e \in [1..Len(ids) -> {None, ListValue(<<1>>)}] :
               StoreAdd([i \in 1..Len(ids) |-> DocumentChunk(ids[i], e[i])])

SpecIndex == IndexInit /\ [][IndexNext]_vars

----------------------------------------------------------------------------
(* Related notes as a state machine: a vault with enough links for notes    *)
(* that share two neighbours, and find_related_notes on it                  *)

\* the number of wikilinks in the whole vault: 0..MaxRelatedEdges
MaxRelatedEdges == 4

\* the number of wikilinks in one note: 0..MaxNoteLinks
MaxNoteLinks == 2

\* similarity_threshold of find_related_notes (2 is its default; with 0 every
\* other node is related)
RelatedThresholds == {0, 1, 2}

RelatedInit ==
    /\ files \in {{"a.md", "b.md"}, FileNames}
    /\ wikilinks \in {w \in [files -> SeqsUpTo(Stems, MaxNoteLinks)] :
                          SumLen(w, files) <= MaxRelatedEdges}
    /\ all_notes \in {InOrder(files)}
    /\ graph_cache = None
    /\ vector = NoVector
    /\ config = DefaultConfig
    /\ call = [op |-> "init"]
    /\ ret = <<>>
    /\ exc = ""
    /\ log = NoLog

RelatedNext ==
    \E path \in GraphPaths, similarity_threshold \in RelatedThresholds :
        FindRelatedNotes(path, similarity_threshold)

SpecRelated == RelatedInit /\ [][RelatedNext]_vars

----------------------------------------------------------------------------
(* Hub notes as a state machine: the vaults of SpecRelated, and             *)
(* get_hub_notes on them                                                    *)

\* top_k of get_hub_notes: 0..MaxHubs, more than the vault has notes
MaxHubs == 4

GetHubNotes(top_k) ==
    \E graph \in {EnsureGraph} :
        /\ call' = [op |-> "get_hub_notes", top_k |-> top_k]
        /\ graph_cache' = graph
        /\ ret' = get_hub_notes(graph, top_k)
        /\ UNCHANGED <<vault, vector, config, exc, log>>

HubsNext == \E top_k \in 0..MaxHubs : GetHubNotes(top_k)

SpecHubs == RelatedInit /\ [][HubsNext]_vars

----------------------------------------------------------------------------
(* Truncation of a document's content as a state machine: a content and a   *)
(* cap, and the call of _truncate_content on them                           *)

\* the length of a content: 0..MaxContent
MaxContent == 95

\* the length of the contents that have two full stops: 0..MaxShort
MaxShort == 12

\* max_chars: none, one, and two at which 70% is a whole number
Caps == {0, 1, 10, 90}

\* the content of n characters with a full stop at the indexes (from 0) P
WithPeriods(n, P) == [i \in 1..n |-> IF (i - 1) \in P THEN "." ELSE "x"]

\* contents without a full stop, with one, and short ones with two
Contents ==
    {WithPeriods(n, {}) : n \in 0..MaxContent}
        \cup UNION {{WithPeriods(n, {i}) : i \in 0..(n - 1)} : n \in 0..MaxContent}
        \cup UNION {{WithPeriods(n, {i, j}) : i, j \in 0..(n - 1)} :
                        n \in 0..MaxShort}

TruncateInit ==
    /\ files = {}
    /\ wikilinks = <<>>
    /\ all_notes = <<>>
    /\ graph_cache = None
    /\ vector = NoVector
    /\ config = DefaultConfig
    /\ call \in {[op |-> "input", content |-> c, max_chars |-> m] :
                     c \in Contents, m \in Caps}
    /\ ret = <<>>
    /\ exc = ""
    /\ log = NoLog

TruncateContent ==
    /\ call.op = "input"
    /\ call' = [call EXCEPT !.op = "_truncate_content"]
    /\ ret' = truncate_content(call.content, call.max_chars)
    /\ UNCHANGED <<vault, graph_cache, vector, config, exc, log>>

TruncateNext == TruncateContent

SpecTruncate == TruncateInit /\ [][TruncateNext]_vars

----------------------------------------------------------------------------
(* The agents as a state machine: a RAGAgent with or without a pipeline     *)
(* over an index, and the tasks it processes.  In this specification the    *)
(* variable config holds the pipeline's RAGConfig together with the agent's *)
(* rag_pipeline (whether there is one) and rag_strategy.                    *)

\* AgentTask, as far as _should_use_rag reads it: whether the context has
\* more than 200 characters, and whether the instruction has a RAG keyword
AgentTasks == [long_context : BOOLEAN, rag_keyword : BOOLEAN]

\* RAGAgent._should_use_rag
should_use_rag(task) ==
    IF task.long_context THEN FALSE ELSE task.rag_keyword

\* AgentResponse, without its text; handler is the method that built it
AgentResponse(confidence, sources, handler) ==
    [tag |-> "AgentResponse", confidence |-> confidence, sources |-> sources,
     handler |-> handler]

\* "confidence=0.85" of BaseAgent.process
BaseConfidence == Rat(17, 20)

\* BaseAgent.process
base_process == AgentResponse(BaseConfidence, <<>>, "BaseAgent.process")

\* min(a, b) of Python: a unless b is less
PyMin(a, b) == IF RLt(b, a) THEN b ELSE a

\* sum(d.score for d in documents)
RECURSIVE SumScores(_)
SumScores(docs) ==
    IF docs = <<>> THEN Zero
    ELSE RAdd(SumScores(SubSeq(docs, 1, Len(docs) - 1)), docs[Len(docs)].score)

\* "avg_score" of the metrics of RAGPipeline.augmented_query
avg_score(documents) ==
    IF documents = <<>> THEN Zero
    ELSE RDiv(SumScores(documents), Rat(Len(documents), 1))

\* RAGAgent._calculate_confidence
calculate_confidence(num_docs, avg) ==
    IF num_docs = 0 THEN Rat(3, 10)
    ELSE LET doc_factor == PyMin(Rat(num_docs, 5), One)
             confidence == RAdd(RAdd(Rat(1, 2), RMul(doc_factor, Rat(1, 4))),
                                RMul(avg, Rat(1, 4)))
         IN  PyMin(confidence, Rat(19, 20))

\* RAGAgent._process_with_rag, from the documents augmented_query returned
process_with_rag(documents) ==
    AgentResponse(calculate_confidence(Len(documents), avg_score(documents)),
                  [i \in 1..Len(documents) |-> documents[i].path],
                  "RAGAgent._process_with_rag")

\* CrossEncoder.predict for documents that do not answer the query: the
\* ms-marco cross-encoders give logits, negative for such pairs
Irrelevant ==
    [p \in Range(PathOrder) |->
        Rat(-10 - (CHOOSE i \in 1..Len(PathOrder) : PathOrder[i] = p), 1)]

\* the number of documents in the index: 0..MaxAgentDocs
MaxAgentDocs == 4

AgentRerankers ==
    {[reranker |-> "ok", ce_score |-> Reversing],
     [reranker |-> "ok", ce_score |-> Irrelevant],
     [reranker |-> "OSError", ce_score |-> <<>>]}

\* RAGAgent(config, llm_client, prompt_loader, rag_pipeline, rag_strategy)
\* over RAGPipeline(obsidian, vector, RAGConfig(...))
AgentSetup(pipeline_config, rag_pipeline, rag_strategy) ==
    pipeline_config
        @@ [rag_pipeline |-> rag_pipeline, rag_strategy |-> rag_strategy]

AgentInit ==
    /\ files = {}
    /\ wikilinks = <<>>
    /\ all_notes = <<>>
    /\ graph_cache = None
    /\ vector \in VectorRAGs(MaxAgentDocs, {One, Rat(1, 2)}, {Zero, One}, 1,
                             AgentRerankers)
                      \cup MockVectorRAGs(MaxAgentDocs)
    /\ config \in {AgentSetup(RAGConfig(k, 2, Rat(3, 5), r, 4000), p, st) :
                       k \in TopKs, r \in BOOLEAN, p \in BOOLEAN,
                       st \in {"vector", "hybrid"}}
    /\ call = [op |-> "init"]
    /\ ret = <<>>
    /\ exc = ""
    /\ log = NoLog

\* RAGAgent.process on an agent without a pipeline, or a task that is not
\* for RAG
ProcessBase(task) ==
    /\ ~(should_use_rag(task) /\ config.rag_pipeline)
    /\ call' = [op |-> "process", task |-> task]
    /\ ret' = base_process
    /\ exc' = ""
    /\ log' = NoLog
    /\ UNCHANGED <<vault, graph_cache, vector, config>>

\* RAGAgent.process on an agent with a pipeline, for a task for RAG
ProcessWithRag(task) ==
    /\ should_use_rag(task) /\ config.rag_pipeline
    /\ \E order \in Orders(vector) :
           \E r \in {retrieve(config.rag_strategy, order)} :
               /\ call' = [op |-> "process", task |-> task]
               /\ ret' = IF r.exc = "" THEN process_with_rag(r.value) ELSE <<>>
               /\ exc' = r.exc
               /\ log' = r.log
               /\ graph_cache' = IF r.built THEN EnsureGraph ELSE graph_cache
               /\ UNCHANGED <<vault, vector, config>>

AgentNext ==
    \E task \in AgentTasks : ProcessBase(task) \/ ProcessWithRag(task)

SpecAgent == AgentInit /\ [][AgentNext]_vars

----------------------------------------------------------------------------
(* Concurrent graph queries as a state machine: get_backlinks coroutines on *)
(* one GraphNavigator, one step from each await of the client to the next   *)

\* the number of coroutines
MaxQueries == 2

Queries == 1..MaxQueries

\* a coroutine that has not been started
Idle == [pc |-> "idle", path |-> "", graph |-> DiGraph, all_notes |-> <<>>,
         todo |-> <<>>]

NoAnswer == [done |-> FALSE, backlinks |-> <<>>, graph |-> DiGraph]

ConcurrentInit ==
    /\ VaultInit
    /\ graph_cache = None
    /\ vector = NoVector
    /\ config = DefaultConfig
    /\ call = [q \in Queries |-> Idle]
    /\ ret = [q \in Queries |-> NoAnswer]
    /\ exc = ""
    /\ log = <<>>

\* the end of get_backlinks: "graph = self._graph_cache" to the return
Answer(graph, path) ==
    [done |-> TRUE, backlinks |-> get_backlinks(graph, path), graph |-> graph]

\* the end of _build_graph, "self._graph_cache = graph", and the rest of
\* get_backlinks, which follows without an await
FinishBuild(q, graph) ==
    /\ graph_cache' = graph
    /\ call' = [call EXCEPT ![q].pc = "done", ![q].graph = graph,
                            ![q].todo = <<>>]
    /\ ret' = [ret EXCEPT ![q] = Answer(graph, call[q].path)]

\* get_backlinks up to its first await: the test of the cache, and, when
\* nothing is cached, _build_graph up to "await self.obsidian.list_notes()";
\* log holds the coroutines that entered _build_graph
StartQuery(q, path) ==
    /\ call[q].pc = "idle"
    /\ IF graph_cache # None
       THEN /\ call' = [call EXCEPT ![q].pc = "done", ![q].path = path]
            /\ ret' = [ret EXCEPT ![q] = Answer(graph_cache, path)]
            /\ UNCHANGED log
       ELSE /\ call' = [call EXCEPT ![q].pc = "list_notes", ![q].path = path]
            /\ log' = Append(log, q)
            /\ UNCHANGED ret
    /\ UNCHANGED <<vault, graph_cache, vector, config, exc>>

\* list_notes has answered: _build_graph up to the first
\* "await self.obsidian.get_note(note_path)", or to its end for no notes
ListNotes(q) ==
    /\ call[q].pc = "list_notes"
    /\ \E listed \in Listings(files) :
        /\ all_notes' = listed
        /\ IF listed = <<>>
           THEN FinishBuild(q, DiGraph)
           ELSE /\ call' = [call EXCEPT ![q].pc = "get_note",
                                        ![q].all_notes = listed,
                                        ![q].todo = listed]
                /\ UNCHANGED <<graph_cache, ret>>
    /\ UNCHANGED <<files, wikilinks, vector, config, exc, log>>

\* get_note has answered: the body of the loop for that note, up to the next
\* get_note or to the end of _build_graph
GetNote(q) ==
    /\ call[q].pc = "get_note"
    /\ \E graph \in {AddNotes(call[q].graph, <<Head(call[q].todo)>>,
                              call[q].all_notes)} :
        IF Tail(call[q].todo) = <<>>
        THEN FinishBuild(q, graph)
        ELSE /\ call' = [call EXCEPT ![q].graph = graph,
                                     ![q].todo = Tail(call[q].todo)]
             /\ UNCHANGED <<graph_cache, ret>>
    /\ UNCHANGED <<vault, vector, config, exc, log>>

ConcurrentNext ==
    \/ \E q \in Queries, path \in QueryPaths : StartQuery(q, path)
    \/ \E q \in Queries : ListNotes(q)
    \/ \E q \in Queries : GetNote(q)

SpecConcurrent == ConcurrentInit /\ [][ConcurrentNext]_vars

----------------------------------------------------------------------------
(* KnowledgeBase.index_vault as a state machine: a vault of notes of one    *)
(* chunk each (50 to 1000 characters), an OllamaEmbedder and a              *)
(* LocalVectorStore                                                         *)

\* the number of notes of the vault: 1..MaxVaultChunks
MaxVaultChunks == 3

\* the embedding the service computes from the content of a note
EmbeddingOf(path) == <<path>>

\* "for chunk, emb in zip(all_chunks_to_embed, embeddings): chunk.embedding =
\* emb": the k-th chunk gets the k-th embedding returned, which embed_batch
\* computed from the text at position embeddings[k][1] of the batch
ZipEmbeddings(paths, embeddings) ==
    [k \in 1..Len(paths) |->
        DocumentChunk(paths[k],
                      IF k <= Len(embeddings)
                      THEN ListValue(EmbeddingOf(paths[embeddings[k][1]]))
                      ELSE None)]

\* LocalVectorStore.clear
store_clear(store) == [store EXCEPT !.chunks = <<>>, !.matrix = None, !.saved = <<>>]

\* KnowledgeBase.index_vault, for the answers of the embedding service to the
\* requests of this call: the store afterwards, and the exception raised
index_vault(store, force_reindex, paths, responses) ==
    LET cleared == IF force_reindex THEN store_clear(store) ELSE store
        batch == embed_batch(responses)
    IN  IF paths = <<>> THEN [store |-> cleared, exc |-> ""]
        ELSE IF batch.exc # "" THEN [store |-> cleared, exc |-> batch.exc]
        ELSE [store |-> store_add(cleared, ZipEmbeddings(paths, batch.value)),
              exc |-> ""]

IndexVaultInit ==
    /\ files \in {FirstPaths(n) : n \in 1..MaxVaultChunks}
    /\ wikilinks = [f \in files |-> <<>>]
    /\ all_notes \in Listings(files)
    /\ graph_cache = None
    /\ vector = LocalVectorStore
    /\ config = DefaultConfig
    /\ call = [op |-> "init"]
    /\ ret = <<>>
    /\ exc = ""
    /\ log = NoLog

IndexVault(force_reindex, responses) ==
    \E r \in {index_vault(vector, force_reindex, all_notes, responses)} :
        /\ call' = [op |-> "index_vault", force_reindex |-> force_reindex,
                    responses |-> responses]
        /\ vector' = r.store
        /\ ret' = <<>>
        /\ exc' = r.exc
        /\ UNCHANGED <<vault, graph_cache, config, log>>

IndexVaultNext ==
    \E force_reindex \in BOOLEAN, responses \in [1..Len(all_notes) -> Responses] :
        IndexVault(force_reindex, responses)

SpecIndexVault == IndexVaultInit /\ [][IndexVaultNext]_vars

----------------------------------------------------------------------------
(* VectorRAG.add_documents as a state machine: a collection, the BM25 index *)
(* kept beside it, batches of new documents, and a new VectorRAG made over  *)
(* the same collection                                                      *)

\* the number of documents the collection is filled up to
MaxIndexed == 4

\* the BM25 index over documents with these ids, in this order
BM25Okapi(doc_ids) == ListValue(doc_ids)

\* VectorRAG._rebuild_bm25_from_chroma
rebuild_bm25_from_chroma(v) ==
    IF ~v.bm25_available \/ v.collection = <<>> THEN v
    ELSE [v EXCEPT !.doc_ids = v.collection, !.bm25 = BM25Okapi(v.collection)]

\* VectorRAG.__init__ over a collection of ChromaDB holding these ids
NewVectorRAG(collection, bm25_available) ==
    rebuild_bm25_from_chroma(
        [class |-> "VectorRAG", bm25_available |-> bm25_available,
         collection |-> collection, doc_ids |-> <<>>, bm25 |-> None])

\* VectorRAG.add_documents
vector_add_documents(v, ids) ==
    IF ids = <<>> THEN v
    ELSE LET added == [v EXCEPT !.collection = @ \o ids]
         IN  IF v.bm25_available
             THEN [added EXCEPT !.doc_ids = ids, !.bm25 = BM25Okapi(ids)]
             ELSE added

\* the documents the BM25 side of hybrid_search can contribute
KeywordCandidates(v) == IF v.bm25 = None THEN {} ELSE Range(v.doc_ids)

AddInit ==
    /\ files = {}
    /\ wikilinks = <<>>
    /\ all_notes = <<>>
    /\ graph_cache = None
    /\ vector \in {NewVectorRAG(collection, bm25_available) :
                      collection \in {<<>>, <<"a.md">>},
                      bm25_available \in BOOLEAN}
    /\ config = DefaultConfig
    /\ call = [op |-> "init"]
    /\ ret = <<>>
    /\ exc = ""
    /\ log = NoLog

\* add_documents with documents that are not in the collection yet
VectorAddDocuments(ids) ==
    /\ Len(vector.collection) + Len(ids) <= MaxIndexed
    /\ Range(ids) \cap Range(vector.collection) = {}
    /\ call' = [op |-> "add_documents", ids |-> ids]
    /\ vector' = vector_add_documents(vector, ids)
    /\ UNCHANGED <<vault, graph_cache, config, ret, exc, log>>

\* a new VectorRAG over the collection as it is
Reopen ==
    /\ call' = [op |-> "__init__"]
    /\ vector' = NewVectorRAG(vector.collection, vector.bm25_available)
    /\ UNCHANGED <<vault, graph_cache, config, ret, exc, log>>

AddNext ==
    \/ \E ids \in {<<>>} \cup Batches(MaxIndexed, MaxBatch) : VectorAddDocuments(ids)
    \/ Reopen

SpecAdd == AddInit /\ [][AddNext]_vars

----------------------------------------------------------------------------
(* RTScheduler.with_priority as a state machine: the scheduling policy and  *)
(* priority of the process, and coroutines wrapped by with_priority, one    *)
(* step from entering the wrapper to the await of the wrapped function and  *)
(* one from its end through the finally block                               *)

\* the number of wrapped coroutines
MaxWrapped == 2

Wrapped == 1..MaxWrapped

SCHED_OTHER == 0
SCHED_FIFO == 1
SCHED_RR == 2
\* a policy of Linux that RTScheduler has no name for
SCHED_BATCH == 3

PRIORITY_HIGH == 60
PRIORITY_NORMAL == 40

\* os.sched_setscheduler(0, policy, param) of Linux: the scheduling of the
\* process afterwards, and whether the call succeeded.  A real-time policy
\* takes a priority of 1 to 99 and needs CAP_SYS_NICE; SCHED_OTHER takes
\* priority 0 only.
sched_setscheduler(sched, privileged, policy, priority) ==
    LET valid == \/ policy \in {SCHED_FIFO, SCHED_RR} /\ priority \in 1..99
                 \/ policy \in {SCHED_OTHER, SCHED_BATCH} /\ priority = 0
        permitted == privileged \/ policy \in {SCHED_OTHER, SCHED_BATCH}
    IN  IF valid /\ permitted
        THEN [policy |-> policy, priority |-> priority]
        ELSE sched

\* RTScheduler.set_priority: errors of sched_setscheduler are caught
set_priority(sched, env, priority, policy) ==
    IF ~env.linux THEN sched
    ELSE sched_setscheduler(sched, env.privileged, policy, priority)

\* RTScheduler.get_current_priority
get_current_priority(sched, env) ==
    IF ~env.linux THEN [policy |-> "UNAVAILABLE", priority |-> 0]
    ELSE [policy |-> CASE sched.policy = SCHED_FIFO -> "SCHED_FIFO"
                       [] sched.policy = SCHED_RR -> "SCHED_RR"
                       [] sched.policy = SCHED_OTHER -> "SCHED_OTHER"
                       [] OTHER -> "UNKNOWN",
          priority |-> sched.priority]

\* the finally block of the wrappers
restore_priority(sched, env, original_info) ==
    IF original_info.policy = "UNAVAILABLE" THEN sched
    ELSE LET original_policy ==
                 CASE original_info.policy = "SCHED_FIFO" -> SCHED_FIFO
                   [] original_info.policy = "SCHED_RR" -> SCHED_RR
                   [] original_info.policy = "SCHED_OTHER" -> SCHED_OTHER
                   [] OTHER -> SCHED_OTHER
         IN  set_priority(sched, env, original_info.priority, original_policy)

\* the wrapper up to the call of the wrapped function
enter_wrapper(sched, env, priority) ==
    [original_info |-> get_current_priority(sched, env),
     sched |-> set_priority(sched, env, priority, SCHED_FIFO)]

\* the scheduling of the process before the call that begins now, or before
\* the running calls it overlaps with
Before(calls, sched) ==
    IF \E v \in DOMAIN calls : calls[v].pc = "running"
    THEN calls[CHOOSE v \in DOMAIN calls : calls[v].pc = "running"].before
    ELSE sched

NotCalled == [pc |-> "idle", priority |-> 0,
              original_info |-> [policy |-> "UNAVAILABLE", priority |-> 0],
              before |-> [policy |-> SCHED_OTHER, priority |-> 0]]

\* the process: its scheduling (log), whether it runs on Linux and whether it
\* has CAP_SYS_NICE (config)
PriorityInit ==
    /\ files = {}
    /\ wikilinks = <<>>
    /\ all_notes = <<>>
    /\ graph_cache = None
    /\ vector = NoVector
    /\ config \in [linux : BOOLEAN, privileged : BOOLEAN]
    /\ call = [w \in Wrapped |-> NotCalled]
    /\ ret = <<>>
    /\ exc = ""
    /\ log \in IF config.privileged
               THEN {[policy |-> SCHED_OTHER, priority |-> 0],
                     [policy |-> SCHED_BATCH, priority |-> 0],
                     [policy |-> SCHED_FIFO, priority |-> PRIORITY_NORMAL],
                     [policy |-> SCHED_RR, priority |-> PRIORITY_NORMAL]}
               ELSE {[policy |-> SCHED_OTHER, priority |-> 0],
                     [policy |-> SCHED_BATCH, priority |-> 0]}

\* async_wrapper from its start to "await func(*args, **kwargs)"
EnterWrapped(w, priority) ==
    /\ call[w].pc = "idle"
    /\ \E r \in {enter_wrapper(log, config, priority)} :
        /\ call' = [call EXCEPT ![w] = [pc |-> "running", priority |-> priority,
                                        original_info |-> r.original_info,
                                        before |-> Before(call, log)]]
        /\ log' = r.sched
    /\ UNCHANGED <<vault, graph_cache, vector, config, ret, exc>>

\* the wrapped function returns or raises: the finally block
LeaveWrapped(w, raised) ==
    /\ call[w].pc = "running"
    /\ call' = [call EXCEPT ![w].pc = "done"]
    /\ log' = restore_priority(log, config, call[w].original_info)
    /\ exc' = IF raised THEN "Exception" ELSE ""
    /\ UNCHANGED <<vault, graph_cache, vector, config, ret>>

\* sync_wrapper: the wrapped function runs without giving way
CallSync(w, priority, raised) ==
    /\ call[w].pc = "idle"
    /\ \E r \in {enter_wrapper(log, config, priority)} :
        /\ call' = [call EXCEPT ![w] = [pc |-> "done", priority |-> priority,
                                        original_info |-> r.original_info,
                                        before |-> Before(call, log)]]
        /\ log' = restore_priority(r.sched, config, r.original_info)
    /\ exc' = IF raised THEN "Exception" ELSE ""
    /\ UNCHANGED <<vault, graph_cache, vector, config, ret>>

PriorityNext ==
    \/ \E w \in Wrapped, priority \in {PRIORITY_NORMAL, PRIORITY_HIGH} :
           EnterWrapped(w, priority)
    \/ \E w \in Wrapped, raised \in BOOLEAN : LeaveWrapped(w, raised)
    \/ \E w \in Wrapped, priority \in {PRIORITY_NORMAL, PRIORITY_HIGH},
          raised \in BOOLEAN : CallSync(w, priority, raised)

SpecPriority == PriorityInit /\ [][PriorityNext]_vars

----------------------------------------------------------------------------
(* expand_context step by step: one step per turn of its while loop, and    *)
(* one for what follows the loop                                            *)

\* the locals of expand_context before its loop, with the paths the loop
\* fetched (get_note(current_path)), those it expanded
\* (get_linked_notes(current_path)), the queue entries it skipped as visited
\* and the links it did not queue because they were visited
StartWalk(path) ==
    [to_visit |-> <<<<path, 0>>>>, visited |-> {}, expanded_docs |-> <<>>,
     fetched |-> <<>>, expanded |-> <<>>, skipped |-> <<>>, known |-> <<>>]

\* one turn of the loop without its "if current_path in visited: continue"
loop_step_revisit(s, depth) ==
    LET current_path == Head(s.to_visit)[1]
        current_depth == Head(s.to_visit)[2]
        rest == Tail(s.to_visit)
        seen == s.visited \cup {current_path}
        note == get_note(current_path)
        got == [s EXCEPT !.to_visit = rest, !.visited = seen,
                         !.fetched = Append(@, current_path)]
    IN  IF note = None THEN got
        ELSE LET scored == [note EXCEPT !.score = Rat(1, current_depth + 1)]
                 kept == [got EXCEPT !.expanded_docs = Append(@, scored)]
             IN  IF ~(current_depth < depth) THEN kept
                 ELSE LET linked == get_linked_notes(current_path)
                          fresh == SelectSeq(linked, LAMBDA l : l \notin seen)
                      IN  [kept EXCEPT
                              !.to_visit = rest \o [i \in 1..Len(fresh) |->
                                                       <<fresh[i], current_depth + 1>>],
                              !.expanded = Append(@, current_path),
                              !.known = @ \o SelectSeq(linked, LAMBDA l : l \in seen)]

\* one turn of the while loop of expand_context
loop_step(s, depth) ==
    LET current_path == Head(s.to_visit)[1]
        current_depth == Head(s.to_visit)[2]
        rest == Tail(s.to_visit)
        seen == s.visited \cup {current_path}
        note == get_note(current_path)
        got == [s EXCEPT !.to_visit = rest, !.visited = seen,
                         !.fetched = Append(@, current_path)]
    IN  IF current_path \in s.visited
        THEN [s EXCEPT !.to_visit = rest, !.skipped = Append(@, current_path)]
        ELSE IF note = None THEN got
        ELSE LET scored == [note EXCEPT !.score = Rat(1, current_depth + 1)]
                 kept == [got EXCEPT !.expanded_docs = Append(@, scored)]
             IN  IF ~(current_depth < depth) THEN kept
                 ELSE LET linked == get_linked_notes(current_path)
                          fresh == SelectSeq(linked, LAMBDA l : l \notin seen)
                      IN  [kept EXCEPT
                              !.to_visit = rest \o [i \in 1..Len(fresh) |->
                                                       <<fresh[i], current_depth + 1>>],
                              !.expanded = Append(@, current_path),
                              !.known = @ \o SelectSeq(linked, LAMBDA l : l \in seen)]

\* the number of wikilinks in the whole vault: 0..MaxWalkLinks
MaxWalkLinks == 2

\* two or three notes, with links to each other, to themselves, twice to the
\* same note, and to notes that may be missing
WalkInit ==
    /\ files \in {{"a.md", "b.md"}, FileNames}
    /\ wikilinks \in {w \in [files -> SeqsUpTo(Stems, MaxWalkLinks)] :
                          SumLen(w, files) <= MaxWalkLinks}
    /\ all_notes \in {InOrder(files)}
    /\ graph_cache = None
    /\ vector = NoVector
    /\ config = DefaultConfig
    /\ call = [op |-> "init", path |-> "", depth |-> 0, pc |-> "done",
               graph |-> DiGraph, todo |-> <<>>]
    /\ ret = <<>>
    /\ exc = ""
    /\ log = StartWalk("")

\* expand_context is called: up to the first test of "while to_visit"
CallExpand(path, depth) ==
    /\ call.pc = "done"
    /\ call' = [op |-> "expand_context", path |-> path, depth |-> depth,
                pc |-> "loop", graph |-> DiGraph, todo |-> <<>>]
    /\ log' = StartWalk(path)
    /\ ret' = <<>>
    /\ UNCHANGED <<vault, graph_cache, vector, config, exc>>

\* one turn of the loop
LoopStep ==
    /\ call.pc = "loop"
    /\ log.to_visit # <<>>
    /\ log' = loop_step(log, call.depth)
    /\ UNCHANGED <<vault, graph_cache, vector, config, call, ret, exc>>

\* the loop has ended: get_backlinks is called and tests the cache; with
\* nothing cached, _build_graph up to "await self.obsidian.list_notes()"
EndLoop ==
    /\ call.pc = "loop"
    /\ log.to_visit = <<>>
    /\ call' = [call EXCEPT !.pc = IF graph_cache = None THEN "list_notes"
                                   ELSE "backlinks"]
    /\ UNCHANGED <<vault, graph_cache, vector, config, ret, exc, log>>

\* the inner loop of _build_graph, as AddLinkEdges, taken one link at a time
RECURSIVE AddLinksInTurn(_, _, _, _)
AddLinksInTurn(g, note_path, links, listed) ==
    IF links = <<>> THEN g
    ELSE CHOOSE graph \in
             {AddLinksInTurn(g2, note_path, Tail(links), listed) :
                 g2 \in {AddLinkEdges(g, note_path, <<Head(links)>>, listed)}} : TRUE

\* the body of the outer loop of _build_graph for one note, as in AddNotes
AddNote(g, note_path, listed) ==
    LET note == get_note(note_path)
    IN  IF note = None THEN g
        ELSE AddLinksInTurn(add_node(g, note_path), note_path, note.wikilinks,
                            listed)

\* _build_graph: list_notes has answered
WalkListNotes ==
    /\ call.pc = "list_notes"
    /\ IF list_notes = <<>>
       THEN /\ graph_cache' = DiGraph
            /\ call' = [call EXCEPT !.pc = "backlinks"]
       ELSE /\ call' = [call EXCEPT !.pc = "get_note", !.todo = list_notes]
            /\ UNCHANGED graph_cache
    /\ UNCHANGED <<vault, vector, config, ret, exc, log>>

\* _build_graph: get_note has answered; the body of the loop for that note,
\* and after the last note "self._graph_cache = graph"
WalkGetNote ==
    /\ call.pc = "get_note"
    /\ \E graph \in {AddNote(call.graph, Head(call.todo), list_notes)} :
        IF Tail(call.todo) = <<>>
        THEN /\ graph_cache' = graph
             /\ call' = [call EXCEPT !.pc = "backlinks", !.graph = graph,
                                     !.todo = <<>>]
        ELSE /\ call' = [call EXCEPT !.graph = graph, !.todo = Tail(call.todo)]
             /\ UNCHANGED graph_cache
    /\ UNCHANGED <<vault, vector, config, ret, exc, log>>

\* get_backlinks has answered: the backlinks of the original note, the sort,
\* the return
AfterBacklinks ==
    /\ call.pc = "backlinks"
    /\ \E backlinks \in {get_backlinks(graph_cache, call.path)} :
           \E found \in {BacklinkDocs(backlinks, log.visited)} :
               ret' = SortByScoreDesc(log.expanded_docs \o found)
    /\ call' = [call EXCEPT !.pc = "done"]
    /\ UNCHANGED <<vault, graph_cache, vector, config, exc, log>>

WalkNext ==
    \/ \E path \in QueryPaths, depth \in 0..MaxDepth : CallExpand(path, depth)
    \/ LoopStep
    \/ EndLoop
    \/ WalkListNotes
    \/ WalkGetNote
    \/ AfterBacklinks

\* a step of the coroutine: the event loop resumes it when the client has
\* answered, and LocalObsidianReader always answers
WalkStep == LoopStep \/ EndLoop \/ WalkListNotes \/ WalkGetNote \/ AfterBacklinks

SpecWalk == WalkInit /\ [][WalkNext]_vars /\ WF_vars(WalkStep)

----------------------------------------------------------------------------
(* Repeated retrieval as a state machine: a vault, a vector client of       *)
(* either class, a configuration, and retrievals by every strategy          *)

\* the notes of the vault: enough of them for the reranking threshold
RepeatNotes == {"a.md", "b.md", "c.md", "d.md"}

\* the number of wikilinks in the whole vault: 0..MaxRepeatRefs
MaxRepeatRefs == 1

\* MockVectorRAG with all notes added, each a single word that is the query
\* or is not
RepeatMocks ==
    {m \in MockVectorRAGs(Cardinality(RepeatNotes)) :
        /\ Len(m.documents) = Cardinality(RepeatNotes)
        /\ \A i \in 1..Len(m.documents) : m.documents[i].words = 1}

RepeatInit ==
    /\ files = RepeatNotes
    /\ wikilinks \in {w \in [files -> SeqsUpTo({Stem(f) : f \in files},
                                                MaxRepeatRefs)] :
                          SumLen(w, files) <= MaxRepeatRefs}
    /\ all_notes \in {InOrder(files)}
    /\ graph_cache = None
    /\ vector \in VectorRAGs(Cardinality(RepeatNotes), {One}, {Zero, One}, 1,
                             {[reranker |-> "ok", ce_score |-> Reversing]})
                      \cup RepeatMocks
    /\ config \in {RAGConfig(k, 2, Rat(3, 5), r, 4000) :
                       k \in TopKs, r \in BOOLEAN}
    /\ call = [op |-> "init"]
    /\ ret = <<>>
    /\ exc = ""
    /\ log = NoLog

RepeatNext ==
    \E strategy \in {"vector", "hybrid", "graph", "full"} : Retrieve(strategy)

SpecRepeat == RepeatInit /\ [][RepeatNext]_vars

----------------------------------------------------------------------------
(* Strategy dispatch as a state machine: the vault, clients and             *)
(* configurations of SpecRepeat, and retrievals by strategies with and      *)
(* without a branch in retrieve                                             *)

\* strategy names that retrieve has no branch for
UnknownStrategies == {"semantic", "Hybrid"}

StrategyNext ==
    \E strategy \in {"vector", "hybrid", "graph", "full"} \cup UnknownStrategies :
        Retrieve(strategy)

SpecStrategy == RepeatInit /\ [][StrategyNext]_vars

----------------------------------------------------------------------------
(* Retrieval over a growing index as a state machine: a vault, a            *)
(* MockVectorRAG that documents are added to, or a VectorRAG, and           *)
(* retrievals by each of the five strategies                                *)

RetrieveInit ==
    /\ files = FirstPaths(MaxKeys)
    /\ wikilinks \in {w \in [files -> SeqsUpTo({Stem(f) : f \in files},
                                                MaxRepeatRefs)] :
                          SumLen(w, files) <= MaxRepeatRefs}
    /\ all_notes \in {InOrder(files)}
    /\ graph_cache = None
    /\ vector \in VectorRAGs(MaxKeys, {One}, {Zero, One}, 1,
                             {[reranker |-> "ok", ce_score |-> Reversing]})
                      \cup {MockVectorRAG}
    /\ config \in {RAGConfig(k, 2, Rat(3, 5), r, 4000) :
                       k \in TopKs, r \in BOOLEAN}
    /\ call = [op |-> "init"]
    /\ ret = <<>>
    /\ exc = ""
    /\ log = NoLog

RetrieveNext ==
    \/ \E strategy \in KnownStrategies : Retrieve(strategy)
    \/ \E paths \in Batches(MaxKeys, MaxAdd) : AddDocuments(paths)

SpecRetrieve == RetrieveInit /\ [][RetrieveNext]_vars

----------------------------------------------------------------------------
(* Claims about the graph navigator (specification Spec) *)

\* the paths of a list of documents
PathsOf(docs) == {docs[i].path : i \in 1..Len(docs)}

\* C1: once the graph is built, get_backlinks(x) returns exactly the documents
\* y of the vault such that x is in get_linked_notes(y).
C1_BacklinksInvertLinkedNotes ==
    call.op = "get_backlinks" =>
        Range(ret) = {y \in Range(list_notes) :
                          call.path \in Range(get_linked_notes(y))}

\* the notes within n outgoing-link hops of path (none if path is no note)
RECURSIVE Within(_, _)
Within(path, n) ==
    IF n = 0 THEN (IF get_note(path) # None THEN {path} ELSE {})
    ELSE LET S == Within(path, n - 1)
         IN  S \cup UNION {Range(get_linked_notes(p)) : p \in S}

\* the smallest number of outgoing-link hops from path to q
Hops(path, q) == CHOOSE d \in 0..(MaxDepth + 1) :
                     /\ q \in Within(path, d)
                     /\ \A e \in 0..(d - 1) : q \notin Within(path, e)

\* C2: expand_context(path, depth) returns every note within depth hops of
\* path with the score 1/(d+1), d its smallest number of hops, and every
\* backlink of path that is not within depth hops with the score 0.9; it
\* returns nothing else.
C2_ExpandContextScores ==
    call.op = "expand_context" =>
        LET reached == Within(call.path, call.depth)
            back == Range(get_backlinks(graph_cache, call.path)) \ reached
        IN  /\ PathsOf(ret) = reached \cup back
            /\ \A i \in 1..Len(ret) :
                   IF ret[i].path \in reached
                   THEN ret[i].score = Rat(1, Hops(call.path, ret[i].path) + 1)
                   ELSE ret[i].score = Rat(9, 10)

\* an expansion that scored a direct link target 0.5 and a backlink 0.9
C2_Witness ==
    /\ call.op = "expand_context"
    /\ call.depth >= 1
    /\ \E i, j, k \in 1..Len(ret) :
           /\ ret[i].path = call.path /\ ret[i].score = One
           /\ ret[j].score = Rat(1, 2)
           /\ ret[k].score = Rat(9, 10)

----------------------------------------------------------------------------
(* Claims about score fusion (specification SpecFusion) *)

PathSeq(docs) == [i \in 1..Len(docs) |-> docs[i].path]

FusionCalled == call.op = "hybrid_search" /\ vector.bm25 # None

\* the keyword score of a path: its BM25 score, 0 if the index lacks it
KeywordScore(p) ==
    LET ids == vector.bm25.doc_ids
    IN  IF p \in Range(ids)
        THEN vector.bm25.scores[CHOOSE i \in 1..Len(ids) : ids[i] = p]
        ELSE Zero

\* the list is in keyword-score order and leaves out no document with a
\* higher keyword score than one it holds
KeywordRanking(docs) ==
    /\ \A i, j \in 1..Len(docs) :
           i < j => RGe(KeywordScore(docs[i].path), KeywordScore(docs[j].path))
    /\ \A p \in Range(vector.bm25.doc_ids) \ PathsOf(docs) :
           \A i \in 1..Len(docs) :
               RGe(KeywordScore(docs[i].path), KeywordScore(p))

\* C6: with vector_weight = 1 hybrid_search(k) returns the documents of
\* semantic_search(k) in the same order; with vector_weight = 0 it returns
\* the documents with the highest keyword scores in keyword-score order.
C6_WeightExtremes ==
    FusionCalled =>
        /\ call.vector_weight = One =>
               /\ exc = ""
               /\ PathSeq(ret) = PathSeq(vector_semantic_search(vector, call.k))
        /\ call.vector_weight = Zero =>
               /\ exc = ""
               /\ KeywordRanking(ret)

\* the two candidate batches of the last hybrid_search: the first 2k results
\* of the collection, and the first 2k indices of the argsort
VectorBatch == Take(vector.collection, call.k * 2)
KeywordBatch == Range(Take(log.order, call.k * 2))

\* weight x (score / maximum score of the batch) for a path of the vector
\* batch, 0 for any other path
VectorPart(p) ==
    LET hit == {i \in 1..Len(VectorBatch) : VectorBatch[i].path = p}
        max == RMax([i \in 1..Len(VectorBatch) |-> VectorBatch[i].score])
    IN  IF hit = {} THEN Zero
        ELSE RMul(call.vector_weight,
                  RDiv(VectorBatch[CHOOSE i \in hit : TRUE].score, max))

\* (1 - weight) x (score / maximum score of the batch) for a path of the
\* keyword batch, 0 for any other path
KeywordPart(p) ==
    LET hit == {i \in KeywordBatch : vector.bm25.doc_ids[i] = p}
        max == RMax([i \in 1..Len(log.order) |-> vector.bm25.scores[log.order[i]]])
    IN  IF hit = {} THEN Zero
        ELSE RMul(RSub(One, call.vector_weight),
                  RDiv(vector.bm25.scores[CHOOSE i \in hit : TRUE], max))

\* C9: hybrid_search fails on no batch, returns no path twice, and gives each
\* path the number weight x normalised vector score + (1 - weight) x
\* normalised keyword score, with 0 for a batch the path is not in.
C9_FusedScore ==
    FusionCalled =>
        /\ exc = ""
        /\ \A i, j \in 1..Len(ret) : ret[i].path = ret[j].path => i = j
        /\ \A i \in 1..Len(ret) :
               /\ ~IsNaN(ret[i].score)
               /\ ret[i].score = RAdd(VectorPart(ret[i].path),
                                      KeywordPart(ret[i].path))

----------------------------------------------------------------------------
(* Claims about the hybrid strategy (specification SpecHybrid) *)

\* the merged candidate set hybrid_search of the client in use builds for
\* the configuration, before it sorts and truncates it
Merged ==
    IF vector.class = "MockVectorRAG"
    THEN mock_semantic_search(vector, Len(vector.documents))
    ELSE IF vector.bm25 = None
    THEN vector_semantic_search(vector, config.top_k * 2)
    ELSE MergedDocs(vector, config.top_k, config.vector_weight, log.order)

HybridCalled == call.op = "retrieve" /\ call.strategy = "hybrid"

\* hybrid_search returned a list to the pipeline
HybridSearchReturned == exc # "ZeroDivisionError"

\* C3 as stated: with reranking enabled and a client that can rerank, when
\* the merged set has more than 3 candidates the reranker is called once and
\* receives every merged candidate.
C3_RerankBeforeTruncation ==
    (/\ HybridCalled
     /\ config.rerank /\ HasRerank(vector)
     /\ HybridSearchReturned
     /\ Len(Merged) > 3)
        => /\ Len(log.rerank_in) = 1
           /\ PathsOf(log.rerank_in[1]) = PathsOf(Merged)

\* C3 amended: the reranker receives the merged set after it was sorted and
\* truncated to top_k, and it is called exactly when reranking is enabled,
\* the client has a rerank method and that truncated list has more than 3
\* documents.
C3_RerankAfterTruncation ==
    HybridCalled =>
        LET truncated == Take(SortByScoreDesc(Merged), config.top_k)
        IN  log.rerank_in =
                IF /\ config.rerank /\ HasRerank(vector)
                   /\ HybridSearchReturned
                   /\ Len(truncated) > 3
                THEN <<truncated>> ELSE <<>>

\* the reranker was called with fewer candidates than were merged
C3_Witness ==
    /\ HybridCalled
    /\ Len(log.rerank_in) = 1
    /\ Len(log.rerank_in[1]) = config.top_k
    /\ Len(Merged) > config.top_k

RerankerUnavailable(v) == IF HasRerank(v) THEN v.reranker # "ok" ELSE TRUE

\* C4: when reranking is enabled but the client has no reranker, or its
\* model cannot be loaded, the hybrid strategy raises nothing and returns the
\* fused candidates in the order hybrid_search gave them.
C4_SilentFallback ==
    (/\ HybridCalled
     /\ config.rerank /\ RerankerUnavailable(vector)
     /\ HybridSearchReturned)
        => /\ exc = ""
           /\ ret = Take(log.hybrid, Len(ret))
           /\ log.hybrid # <<>> => ret # <<>>

\* no document is followed by one with a greater score
Descending(docs) ==
    \A i, j \in 1..Len(docs) : i < j => ~RLt(docs[i].score, docs[j].score)

\* C10: whenever the hybrid strategy returns, it returns min(top_k, number
\* of merged paths) documents, none followed by a document with a greater
\* score, with reranking enabled or not.
C10_HybridResult ==
    (HybridCalled /\ exc = "") =>
        /\ Len(ret) = Min(config.top_k, Cardinality(PathsOf(Merged)))
        /\ Descending(ret)

----------------------------------------------------------------------------
(* Claims about the graph and full strategies (specification SpecExpand) *)

\* the list the hybrid strategy handed to the graph or full strategy: the
\* reranked list if the reranker was called, else hybrid_search's result
Seeds ==
    IF log.rerank_in = <<>> THEN log.hybrid
    ELSE rerank(vector, log.hybrid, Min(3, Len(log.hybrid)))

\* what expand_context returns for the i-th seed at the given depth
ExpansionOf(i, depth) == expand_context(graph_cache, Seeds[i].path, depth)

\* C7: whenever the graph strategy returns, the candidates it sorts and
\* truncates are all seeds and the expansions of the first 3 seeds; so when
\* these are at most top_k paths, every seed is in the result.
C7_GraphKeepsSeeds ==
    (call.op = "retrieve" /\ call.strategy = "graph" /\ exc = "") =>
        LET expanded == UNION {PathsOf(ExpansionOf(i, config.graph_depth)) :
                                   i \in 1..Min(3, Len(Seeds))}
            candidates == PathsOf(Seeds) \cup expanded
        IN  /\ PathsOf(ret) \subseteq candidates
            /\ Cardinality(candidates) <= config.top_k =>
                   PathsOf(ret) = candidates

\* C8: whenever the full strategy returns, it has expanded exactly its first
\* 2 hybrid results, at depth 2; its result holds min(top_k, size of the
\* union) documents of the union of the hybrid results and these expansions,
\* no path twice, a hybrid result with its hybrid score, and no document is
\* followed by one with a greater score.
C8_FullStrategy ==
    (call.op = "retrieve" /\ call.strategy = "full" /\ exc = "") =>
        LET n == Min(2, Len(Seeds))
            union == PathsOf(Seeds)
                         \cup UNION {PathsOf(ExpansionOf(i, 2)) : i \in 1..n}
        IN  /\ log.expanded = [i \in 1..n |-> [path |-> Seeds[i].path, depth |-> 2]]
            /\ PathsOf(ret) \subseteq union
            /\ Len(ret) = Min(config.top_k, Cardinality(union))
            /\ \A i, j \in 1..Len(ret) : ret[i].path = ret[j].path => i = j
            /\ \A i \in 1..Len(ret), j \in 1..Len(Seeds) :
                   ret[i].path = Seeds[j].path => ret[i].score = Seeds[j].score
            /\ Descending(ret)

----------------------------------------------------------------------------
(* Claims about context assembly (specification SpecContext) *)

EndsWith(text, suffix) ==
    /\ Len(text) >= Len(suffix)
    /\ SubSeq(text, Len(text) - Len(suffix) + 1, Len(text)) = suffix

\* C5: whenever build_context truncates, the context it returns has at most
\* max_context_tokens x 4 characters and ends with the truncation marker.
C5_TruncatedWithinBudget ==
    (/\ call.op = "build_context"
     /\ estimate_tokens(call.context) > config.max_context_tokens)
        => /\ Len(ret) <= config.max_context_tokens * 4
           /\ EndsWith(ret, TruncationMarker)

----------------------------------------------------------------------------
(* Claims about path finding and related notes (specification SpecGraph) *)

\* the numbers of nodes of the walks from start to end in the cached graph
WalkLengths(start, end) ==
    {n \in 1..Len(graph_cache.nodes) : Walks(graph_cache, start, end, n) # {}}

\* C11: find_path(start, end) returns a walk from start to end along the
\* edges of the graph with the fewest edges possible, and None when there is
\* no such walk (end unreachable, or start or end no node of the graph), for
\* both backends and also when start = end.
C11_FindPath ==
    call.op = "find_path" =>
        IF WalkLengths(call.start, call.end) = {} THEN ret = None
        ELSE /\ ret # None
             /\ Len(ret.value) \in WalkLengths(call.start, call.end)
             /\ ret.value \in Walks(graph_cache, call.start, call.end,
                                    Len(ret.value))
             /\ \A n \in WalkLengths(call.start, call.end) : Len(ret.value) <= n

----------------------------------------------------------------------------
(* Claims about the embedder (specification SpecEmbed) *)

\* C12: embed_batch always returns, and returns the embeddings of the texts
\* whose request did not fail and gave an embedding, in input order; so one
\* failed request costs the embedding of that text only.
C12_BatchSurvivesFailure ==
    call.op = "embed_batch" =>
        /\ exc = ""
        /\ ret = SelectSeq([i \in 1..Len(call.responses) |->
                                IF call.responses[i] = "embedding"
                                THEN Embedding(i) ELSE <<>>],
                           LAMBDA emb : emb # <<>>)

----------------------------------------------------------------------------
(* Claims about the index stores (specification SpecIndex) *)

\* C13: however often a document was added, a search of MockVectorRAG
\* returns no path twice, and LocalVectorStore holds one chunk per id.  (A
\* batch holds no path twice and a path always comes with the same document,
\* so a path can only be there twice because the same document was added
\* again.)
C13_NoDuplicateEntries ==
    /\ (vector.class = "MockVectorRAG" /\ call.op = "semantic_search") =>
           \A i, j \in 1..Len(ret) : ret[i].path = ret[j].path => i = j
    /\ vector.class = "LocalVectorStore" =>
           \A i, j \in 1..Len(vector.chunks) :
               vector.chunks[i].id = vector.chunks[j].id => i = j

----------------------------------------------------------------------------
(* Claims about repeated retrieval (specification SpecRepeat) *)

----------------------------------------------------------------------------
(* Claims about strategy dispatch (specification SpecStrategy) *)

\* C15: a retrieve call with a strategy that is none of vector, keyword,
\* hybrid, graph and full raises ValueError and returns nothing; it leaves no
\* trace of a candidate search (no argsort outcome, no hybrid list), of a
\* reranker call or of a graph expansion, and the graph cache is what it was
\* before the call: not built if it was not built, untouched if it was.
C15_UnknownStrategy ==
    [][(call'.op = "retrieve" /\ call'.strategy \notin KnownStrategies) =>
           /\ exc' = "ValueError"
           /\ ret' = <<>>
           /\ log' = NoLog
           /\ graph_cache' = graph_cache
           /\ vector' = vector]_vars

\* an unknown strategy was asked for after an earlier call had built the graph
C15_Witness ==
    /\ call.op = "retrieve"
    /\ call.strategy \in UnknownStrategies
    /\ exc = "ValueError"
    /\ graph_cache # None

----------------------------------------------------------------------------
(* Claims about paths outside the vault (specification SpecGraph) and about *)
(* expand_context (specification Spec)                                    *)

\* C16: a graph query about a path that is not a document of the vault
\* returns nothing and raises nothing, whether or not the graph was built
\* before: get_linked_notes, get_backlinks, expand_context and
\* find_related_notes return the empty list, and find_path returns None when
\* its start or its end is such a path.
C16_AbsentPath ==
    /\ (/\ call.op \in {"get_linked_notes", "get_backlinks", "expand_context",
                         "find_related_notes"}
        /\ call.path \notin files) => (ret = <<>> /\ exc = "")
    /\ (/\ call.op = "find_path"
        /\ (call.start \notin files \/ call.end \notin files)) =>
           (ret = None /\ exc = "")

\* C17: expand_context(path, depth) returns no document twice (a document is
\* a file of the vault, whatever path names it), and every note it returns is
\* within depth outgoing-link hops of path or is a direct backlink of path: a
\* note first met beyond depth hops (behind a note at distance depth, which
\* is returned but not expanded) and a note that links only to visited notes
\* other than path are not returned.
C17_ExpandContextBounds ==
    call.op = "expand_context" =>
        /\ \A i, j \in 1..Len(ret) :
               FileOf(ret[i].path) = FileOf(ret[j].path) => i = j
        /\ PathsOf(ret) \subseteq
               Within(call.path, call.depth)
                   \cup Range(get_backlinks(graph_cache, call.path))

----------------------------------------------------------------------------
(* Claims about the order of an expansion (specification Spec) *)

\* the notes in the order expand_context finds them: the traversal from
\* path, then the backlinks of path that the traversal did not visit
Discovered ==
    LET t == Traverse(<<<<call.path, 0>>>>, {}, <<>>, call.depth)
    IN  t.expanded_docs
            \o BacklinkDocs(get_backlinks(graph_cache, call.path), t.visited)

\* where expand_context found the note
DiscoveryIndex(doc) ==
    CHOOSE k \in 1..Len(Discovered) : Discovered[k].path = doc.path

\* C18: the list expand_context returns holds the notes it found, each with
\* the score it was given, in descending order of score; two notes with the
\* same score are in the order in which they were found (the traversal
\* before the backlinks).
C18_SortedStable ==
    call.op = "expand_context" =>
        /\ Len(ret) = Len(Discovered)
        /\ \A i \in 1..Len(ret) :
               /\ ret[i].path \in PathsOf(Discovered)
               /\ ret[i] = Discovered[DiscoveryIndex(ret[i])]
        /\ \A i, j \in 1..Len(ret) :
               i < j =>
                   /\ ~ScoreLt(ret[i], ret[j])
                   /\ ret[i].score = ret[j].score =>
                          DiscoveryIndex(ret[i]) < DiscoveryIndex(ret[j])

\* an expansion that found two notes at the same distance from path, which
\* have the same score
C18_Witness ==
    /\ call.op = "expand_context"
    /\ \E i, j \in 1..Len(ret) :
           /\ i < j
           /\ ret[i].score = ret[j].score
           /\ ret[i].score # BacklinkScore

----------------------------------------------------------------------------
(* Claims about the cached graph (specification SpecBuild) *)

NodesOf(g) == Range(g.nodes)

\* the edges by the successor lists, and by the predecessor lists
EdgesOf(g) ==
    UNION {{<<g.nodes[i], v>> : v \in Range(g.succ[i])} : i \in 1..Len(g.nodes)}

PredEdgesOf(g) ==
    UNION {{<<u, g.nodes[i]>> : u \in Range(g.pred[i])} : i \in 1..Len(g.nodes)}

\* the paths the wikilinks of the note u resolve to
LinkTargets(u) == {LinkPath(wikilinks[u][k]) : k \in 1..Len(wikilinks[u])}

\* a graph of the vault: nodes and edge ends are listed paths, an edge goes
\* from a note to the target of one of its wikilinks, and a wikilink whose
\* target is not listed has left no edge and no node
GraphOfVault ==
    graph_cache # None =>
        /\ NodesOf(graph_cache) \subseteq Range(all_notes)
        /\ PredEdgesOf(graph_cache) = EdgesOf(graph_cache)
        /\ \A e \in EdgesOf(graph_cache) :
               /\ e[1] \in Range(all_notes)
               /\ e[2] \in Range(all_notes)
               /\ e[2] \in LinkTargets(e[1])
        /\ \A u \in files : \A t \in LinkTargets(u) :
               t \notin Range(all_notes) =>
                   /\ t \notin NodesOf(graph_cache)
                   /\ <<u, t>> \notin EdgesOf(graph_cache)

\* C19: whenever a graph is cached, each of its edges (u, v) joins two listed
\* paths and v is the path a wikilink of u resolves to, and a wikilink whose
\* target is not a listed path has added neither an edge nor a node; a build
\* that replaces a cached graph, the vault unchanged, gives a graph with the
\* same nodes and the same edges.
C19_BuildGraph ==
    [][/\ GraphOfVault'
       /\ (graph_cache # None /\ graph_cache' # None) =>
              /\ NodesOf(graph_cache') = NodesOf(graph_cache)
              /\ EdgesOf(graph_cache') = EdgesOf(graph_cache)]_vars

\* a graph with an edge, built by _build_graph on a vault that has a wikilink
\* to a path that is not listed
C19_Witness ==
    /\ call.op = "_build_graph"
    /\ EdgesOf(graph_cache) # {}
    /\ \E u \in files : \E t \in LinkTargets(u) : t \notin Range(all_notes)

----------------------------------------------------------------------------
(* Claims about related notes (specification SpecRelated) *)

\* the nodes joined to n by an edge in either direction
NeighbourSet(n) ==
    {m \in NodesOf(graph_cache) :
        <<n, m>> \in EdgesOf(graph_cache) \/ <<m, n>> \in EdgesOf(graph_cache)}

\* the number of neighbours n has in common with the note asked about
Shared(n) == Cardinality(NeighbourSet(call.path) \cap NeighbourSet(n))

\* C20: find_related_notes(path, threshold), path a node of the graph,
\* returns each node other than path that has at least threshold neighbours
\* (successors and predecessors) in common with path, once, and no other
\* node; a node is never behind one with fewer common neighbours.  For a
\* path that is no node the list is empty.
C20_RelatedNotes ==
    call.op = "find_related_notes" =>
        /\ Range(ret) =
               IF call.path \in NodesOf(graph_cache)
               THEN {n \in NodesOf(graph_cache) \ {call.path} :
                        Shared(n) >= call.similarity_threshold}
               ELSE {}
        /\ \A i, j \in 1..Len(ret) :
               /\ ret[i] = ret[j] => i = j
               /\ i < j => Shared(ret[i]) >= Shared(ret[j])

\* two related notes: the second shares just threshold neighbours, the first
\* shares more and comes later in the graph's node order
C20_Witness ==
    /\ call.op = "find_related_notes"
    /\ call.similarity_threshold >= 1
    /\ Len(ret) = 2
    /\ Shared(ret[2]) = call.similarity_threshold
    /\ Shared(ret[1]) > Shared(ret[2])
    /\ NodeIndex(graph_cache, ret[1]) > NodeIndex(graph_cache, ret[2])

----------------------------------------------------------------------------
(* Claims about hub notes (specification SpecHubs) *)

\* in-degree plus out-degree of the node n, counted on the edges
TotalDegree(n) ==
    Cardinality({e \in EdgesOf(graph_cache) : e[1] = n})
        + Cardinality({e \in EdgesOf(graph_cache) : e[2] = n})

\* C21: get_hub_notes(top_k), top_k >= 0, returns min(top_k, number of
\* nodes) pairs, each a node (no node twice) with its in-degree plus
\* out-degree; no pair stands behind one with a smaller degree, and no node
\* that is left out has a larger degree than a node that is returned.
C21_HubNotes ==
    call.op = "get_hub_notes" =>
        /\ Len(ret) = Min(call.top_k, Cardinality(NodesOf(graph_cache)))
        /\ \A i \in 1..Len(ret) :
               /\ ret[i][1] \in NodesOf(graph_cache)
               /\ ret[i][2] = TotalDegree(ret[i][1])
        /\ \A i, j \in 1..Len(ret) :
               /\ ret[i][1] = ret[j][1] => i = j
               /\ i < j => ret[i][2] >= ret[j][2]
        /\ \A n \in NodesOf(graph_cache) \ {ret[i][1] : i \in 1..Len(ret)} :
               \A i \in 1..Len(ret) : TotalDegree(n) <= ret[i][2]

\* two hubs of different degree returned, the first of them later in the
\* graph's node order, and a node left out
C21_Witness ==
    /\ call.op = "get_hub_notes"
    /\ Len(ret) = 2
    /\ Cardinality(NodesOf(graph_cache)) > 2
    /\ ret[1][2] > ret[2][2]
    /\ NodeIndex(graph_cache, ret[1][1]) > NodeIndex(graph_cache, ret[2][1])

----------------------------------------------------------------------------
(* Claims about the truncation of contents (specification SpecTruncate) *)

\* the indexes, from 0, of the full stops among the first max_chars
\* characters of the content
PeriodsWithinCap ==
    {i \in 0..(Min(call.max_chars, Len(call.content)) - 1) :
        call.content[i + 1] = "."}

LastPeriodWithinCap ==
    CHOOSE i \in PeriodsWithinCap : \A j \in PeriodsWithinCap : j <= i

\* C22: _truncate_content returns a content of at most max_chars characters
\* as it is.  Of a longer one it returns the characters up to and including
\* the last "." among the first max_chars, if there is one and its index is
\* more than 70% of max_chars, and else the first max_chars characters
\* followed by "...".
C22_TruncateContent ==
    call.op = "_truncate_content" =>
        IF Len(call.content) <= call.max_chars THEN ret = call.content
        ELSE IF /\ PeriodsWithinCap # {}
                /\ 10 * LastPeriodWithinCap > 7 * call.max_chars
        THEN ret = Take(call.content, LastPeriodWithinCap + 1)
        ELSE ret = Take(call.content, call.max_chars) \o <<".", ".", ".">>

----------------------------------------------------------------------------
(* Claims about the agents (specification SpecAgent) *)

\* C23: a RAGAgent without a pipeline answers every task by
\* BaseAgent.process, and the response has the confidence 0.0.
C23_WithoutPipeline ==
    (call.op = "process" /\ ~config.rag_pipeline) =>
        /\ exc = ""
        /\ ret.handler = "BaseAgent.process"
        /\ ret.confidence = Zero

\* C24: the confidence of every response process returns is at least 0 and
\* at most 1, for the base agent and for every list of documents the
\* pipeline retrieves, reranked or not.
C24_ConfidenceInRange ==
    (call.op = "process" /\ exc = "") =>
        /\ RGe(ret.confidence, Zero)
        /\ RGe(One, ret.confidence)

\* C25: of the get_backlinks coroutines started on a navigator with an empty
\* cache, one only enters _build_graph, and every answer given is read from
\* the graph that build has put into the cache; a query started once the
\* cache is set enters no build.
C25_SingleFlight ==
    /\ Len(log) <= 1
    /\ \A q \in Queries :
           ret[q].done => graph_cache # None /\ ret[q].graph = graph_cache

\* C26: after index_vault, every chunk stored with an embedding has the
\* embedding computed from its own content, also when the service gave no
\* embedding for some texts of the batch.
C26_OwnEmbedding ==
    call.op = "index_vault" =>
        \A i \in 1..Len(vector.chunks) :
            vector.chunks[i].embedding # None =>
                vector.chunks[i].embedding = ListValue(EmbeddingOf(vector.chunks[i].id))

\* C27: where BM25 is available, after every add_documents call the BM25 index
\* holds every document of the collection, so each of them can come from the
\* keyword side of hybrid_search.
C27_Bm25CoversCollection ==
    (call.op = "add_documents" /\ vector.bm25_available) =>
        Range(vector.collection) \subseteq KeywordCandidates(vector)

\* C28: whatever the strategy, the index and the vault, a retrieve call that
\* returns gives at most top_k documents, and no two of them have the same
\* path.
C28_AtMostTopKDistinct ==
    (call.op = "retrieve" /\ exc = "") =>
        /\ Len(ret) <= config.top_k
        /\ \A i, j \in 1..Len(ret) : ret[i].path = ret[j].path => i = j

\* C29: when a wrapped function has finished, by returning or by raising, and
\* no wrapped function is running, the process has the policy and the priority
\* it had before that call, and before the calls overlapping with it, began;
\* so also after two wrapped coroutines that overlapped.
C29_PriorityRestored ==
    \A w \in Wrapped :
        (call[w].pc = "done" /\ \A v \in Wrapped : call[v].pc # "running") =>
            log = call[w].before

NoRepeat(s) == \A i, j \in 1..Len(s) : s[i] = s[j] => i = j

====
